---- MODULE Spec2Model ----
(***************************************************************************)
(* cfg.h: a configuration-file loader.  The module models                  *)
(*   - the document, the bracket stack, the variable tree, the token       *)
(*     parser and the accessors of cfg.h version 0.2.0                     *)
(*     (src/unnamed/part_006), specification Spec;                         *)
(*   - the buffer tokenizer of the same version, specification SpecTok;    *)
(*   - a whole load of that version, cfg_load_buffer and cfg_load_stream   *)
(*     with both tokenizers, the parser and the typed getters,             *)
(*     specification SpecLoad;                                             *)
(*   - the accessors of that version called on documents it has loaded,    *)
(*     the safe getters with the error they leave in the context,          *)
(*     specification SpecGet;                                              *)
(*   - cfg_load_file of that version, the size limit and the stream it     *)
(*     opens and closes, specification SpecPath;                           *)
(*   - the resource life cycle of the singleton document of the earlier    *)
(*     version (src/unnamed/part_005), specification SpecFile.             *)
(*                                                                         *)
(* The parser reads tokens[i] only for i <= cur_token (and looks back at   *)
(* i-1 and cur_token-3), so Spec reveals the token array of a load one     *)
(* token per loop iteration: the set of behaviours is the one obtained by  *)
(* fixing the whole array when the load starts.                            *)
(*                                                                         *)
(* Not modelled: a failing malloc, realloc or strdup (the NO_MEMORY        *)
(* returns), and the growth of the arrays beyond their initial 64 cells,   *)
(* which the bounds below never reach.                                     *)
(***************************************************************************)
EXTENDS Integers, Sequences, FiniteSets, TLC

\* ------------------------------------------------------------------ bounds
\* Tokens handed to the parser, summed over the loads of one behaviour.
MaxTokens == 10
\* Load calls on the document in one behaviour.
MaxLoads == 2
\* Lexemes a tokenizer input is made of.
MaxPieces == 4
\* Characters of a tokenizer input made of comment characters.
MaxChars == 6
\* Calls of cfg_load_file and cfg_unload on the singleton document.
MaxCalls == 4
\* Characters of a number literal of a whole load, and digits sscanf reads.
MaxNum == 3
\* Characters after the opening quote of a string literal of a whole load.
MaxBody == 4
\* Elements of a list literal of a whole load.
MaxElems == 3

\* accessor calls on a loaded document
MaxGets == 1
\* the largest index given to a getter by index
MaxIdx == 2

\* ------------------------------------------------------ program constants
NULL == "<NULL>"

CFG_TYPE_NONE == "TYPE_NONE"
CFG_TYPE_INT == "TYPE_INT"
CFG_TYPE_DOUBLE == "TYPE_DOUBLE"
CFG_TYPE_BOOL == "TYPE_BOOL"
CFG_TYPE_STRING == "TYPE_STRING"
CFG_TYPE_ARRAY == "TYPE_ARRAY"
CFG_TYPE_LIST == "TYPE_LIST"
CFG_TYPE_STRUCT == "TYPE_STRUCT"

CFG_ERROR_NONE == "ERROR_NONE"
CFG_ERROR_NO_MEMORY == "ERROR_NO_MEMORY"
CFG_ERROR_OPEN_FILE == "ERROR_OPEN_FILE"
CFG_ERROR_FILE_TOO_LARGE == "ERROR_FILE_TOO_LARGE"
CFG_ERROR_UNKNOWN_TOKEN == "ERROR_UNKNOWN_TOKEN"
CFG_ERROR_UNEXPECTED_TOKEN == "ERROR_UNEXPECTED_TOKEN"
CFG_ERROR_VARIABLE_REDEFINITION == "ERROR_VARIABLE_REDEFINITION"
CFG_ERROR_VARIABLE_NOT_FOUND == "ERROR_VARIABLE_NOT_FOUND"
CFG_ERROR_VARIABLE_WRONG_TYPE == "ERROR_VARIABLE_WRONG_TYPE"
CFG_ERROR_VARIABLE_PARSE == "ERROR_VARIABLE_PARSE"

CFG_TOKEN_EQ == "EQ"
CFG_TOKEN_SEMICOLON == "SEMICOLON"
CFG_TOKEN_COMMA == "COMMA"
CFG_TOKEN_LEFT_BRACKET == "LEFT_BRACKET"
CFG_TOKEN_RIGHT_BRACKET == "RIGHT_BRACKET"
CFG_TOKEN_LEFT_PARENTHESIS == "LEFT_PARENTHESIS"
CFG_TOKEN_RIGHT_PARENTHESIS == "RIGHT_PARENTHESIS"
CFG_TOKEN_LEFT_CURLY_BRACKET == "LEFT_CURLY_BRACKET"
CFG_TOKEN_RIGHT_CURLY_BRACKET == "RIGHT_CURLY_BRACKET"
CFG_TOKEN_EOF == "EOF"
CFG_TOKEN_IDENTIFIER == "IDENTIFIER"
CFG_TOKEN_INT == "INT"
CFG_TOKEN_DOUBLE == "DOUBLE"
CFG_TOKEN_BOOL == "BOOL"
CFG_TOKEN_STRING == "STRING"

VARIABLES
    nodes,      \* the Cfg_Variable objects; nodes[1] is cfg->global
    err,        \* cfg->err
    lexer,      \* the Cfg_Lexer of the load in progress
    p,          \* the locals of cfg__parse_tokens
    pc,         \* "idle": no call in progress; "parse": inside cfg__parse_tokens;
                \* "tokenized": a whole load has its lexer and has not parsed it;
                \* "fault": the process was ended inside an accessor
    ret,        \* what the last load call returned
    loads,      \* load calls started so far
    budget,     \* tokens still to be handed to the parser
    buf,        \* the characters of the buffer given to cfg__buffer_tokenize
    lx,         \* the Cfg_Lexer that cfg__buffer_tokenize fills
    entry,      \* the entry point a whole load went through, "none" before it
    released,   \* how often a whole load has released each block of its lexer
    path,       \* the file that the path given to cfg_load_file names, and how
                \* often the call has opened and closed a stream on it
    cfg,        \* the static Cfg_Config of the file-loading version
    heap,       \* every block and stream that version has obtained
    call,       \* its calls so far, the last one and what it returned
    ctxerr,     \* the err.type fields that the safe getters have written
    got         \* the accessor calls so far, the last one and what it returned

docVars == <<nodes, lexer, p, pc, ret, loads, budget>>
tokVars == <<buf, lx, entry, released, path>>
fileVars == <<cfg, heap, call>>
getVars == <<ctxerr, got>>
vars == <<nodes, err, lexer, p, pc, ret, loads, budget, buf, lx, entry, released, path,
          cfg, heap, call,
          ctxerr, got>>

\* ------------------------------------------------------------- the tree
\* A node that does not keep the text of its value.
Cfg_VariableWithoutValue(type, name, value, prev) ==
    [type |-> type, name |-> name, value |-> NULL, prev |-> prev, vars |-> <<>>]

Cfg_Variable(type, name, value, prev) ==
    [type |-> type, name |-> name, value |-> value, prev |-> prev, vars |-> <<>>]

\* cfg->global: name, value, prev and vars_len are set; type is left as
\* malloc returned it and is never read by the library.
GlobalNode == Cfg_Variable("TYPE_UNSET", NULL, NULL, 0)

Cfg_Error(type, msg, line, column, var, inside) ==
    [type |-> type, msg |-> msg, line |-> line, column |-> column,
     var |-> var, inside |-> inside]

NoError == Cfg_Error(CFG_ERROR_NONE, "", 0, 0, NULL, NULL)

IsAggregate(type) == type \in {CFG_TYPE_STRUCT, CFG_TYPE_ARRAY, CFG_TYPE_LIST}

\* ------------------------------------------------------ the bracket stack
cfg__stack_add_char(stack, ch) == Append(stack, ch)

cfg__stack_pop_char(stack) ==
    IF Len(stack) # 0 THEN SubSeq(stack, 1, Len(stack) - 1) ELSE stack

cfg__stack_last_char(stack) ==
    IF Len(stack) = 0 THEN " " ELSE stack[Len(stack)]

\* ------------------------------------------------- cfg__context_add_variable
\* s is the state a load works on: the document (nodes, err), the lexer
\* (tokens, cur_token, stack) and the locals of cfg__parse_tokens.
\* g stands for what tokens[cur_token - 3] yields when cur_token - 3 is not
\* an index of the token array (an out-of-bounds read).
TokenBefore3(s, g) ==
    IF s.cur_token - 3 \in 1..Len(s.tokens)
    THEN [line |-> s.tokens[s.cur_token - 3].line,
          column |-> s.tokens[s.cur_token - 3].column]
    ELSE g

NameTaken(s, ctx, name) ==
    \E i \in 1..Len(s.nodes[ctx].vars) : s.nodes[s.nodes[ctx].vars[i]].name = name

\* cfg__context_add_variable without the loop that compares the names.
AddVariableUnchecked(s, ctx, type, name, value, g) ==
    LET id == Len(s.nodes) + 1
    IN [s EXCEPT !.nodes = Append([s.nodes EXCEPT ![ctx].vars = Append(@, id)],
                                  Cfg_Variable(type, name, value, ctx))]

\* cfg__context_add_variable with vars_len++ done before the names are
\* compared: the child is in the context when the error is reported.
AddVariableRegistersFirst(s, ctx, type, name, value, g) ==
    LET id == Len(s.nodes) + 1
        added == Append([s.nodes EXCEPT ![ctx].vars = Append(@, id)],
                        Cfg_Variable(type, name, value, ctx))
    IN IF name # NULL /\ NameTaken(s, ctx, name)
       THEN [s EXCEPT !.nodes = added,
                      !.err = Cfg_Error(CFG_ERROR_VARIABLE_REDEFINITION,
                                        "Redefined variable",
                                        TokenBefore3(s, g).line,
                                        TokenBefore3(s, g).column,
                                        name, s.nodes[ctx].name)]
       ELSE [s EXCEPT !.nodes = added]

\* The type is stored in the free cell vars[vars_len] before the names are
\* compared; that cell is no child until vars_len counts it, and no accessor
\* reads it.
cfg__context_add_variable(s, ctx, type, name, value, g) ==
    IF name # NULL /\ NameTaken(s, ctx, name)
    THEN [s EXCEPT !.err = Cfg_Error(CFG_ERROR_VARIABLE_REDEFINITION,
                                     "Redefined variable",
                                     TokenBefore3(s, g).line,
                                     TokenBefore3(s, g).column,
                                     name, s.nodes[ctx].name)]
    ELSE LET id == Len(s.nodes) + 1
         IN [s EXCEPT !.nodes = Append([s.nodes EXCEPT ![ctx].vars = Append(@, id)],
                                       Cfg_Variable(type, name, value, ctx))]

\* ------------------------------------------------------- cfg__parse_tokens
ValueStart ==
    {CFG_TOKEN_LEFT_BRACKET, CFG_TOKEN_LEFT_PARENTHESIS, CFG_TOKEN_LEFT_CURLY_BRACKET,
     CFG_TOKEN_INT, CFG_TOKEN_DOUBLE, CFG_TOKEN_BOOL, CFG_TOKEN_STRING}

\* A switch that lets a closing bracket follow a value wherever it is.
AfterValueOrBracket(stack) ==
    CASE cfg__stack_last_char(stack) = "[" -> {CFG_TOKEN_COMMA, CFG_TOKEN_RIGHT_BRACKET}
      [] cfg__stack_last_char(stack) = "(" -> {CFG_TOKEN_COMMA, CFG_TOKEN_RIGHT_PARENTHESIS}
      [] OTHER -> {CFG_TOKEN_SEMICOLON, CFG_TOKEN_RIGHT_BRACKET}

\* The switch on cfg__stack_last_char that follows a value or a closer.
AfterValue(stack) ==
    CASE cfg__stack_last_char(stack) = "[" -> {CFG_TOKEN_COMMA, CFG_TOKEN_RIGHT_BRACKET}
      [] cfg__stack_last_char(stack) = "(" -> {CFG_TOKEN_COMMA, CFG_TOKEN_RIGHT_PARENTHESIS}
      [] OTHER -> {CFG_TOKEN_SEMICOLON}

\* The switch on cfg__stack_last_char that follows a comma.
AfterComma(stack) ==
    ValueStart \cup
    (CASE cfg__stack_last_char(stack) = "[" -> {CFG_TOKEN_RIGHT_BRACKET}
       [] cfg__stack_last_char(stack) = "(" -> {CFG_TOKEN_RIGHT_PARENTHESIS}
       [] OTHER -> {})

AfterSemicolon(stack) ==
    {CFG_TOKEN_IDENTIFIER, CFG_TOKEN_EOF} \cup
    (IF cfg__stack_last_char(stack) = "{" THEN {CFG_TOKEN_RIGHT_CURLY_BRACKET} ELSE {})

Return1(s) == [s EXCEPT !.rc = "return 1"]

\* free(tmp_string_buf) after an add of a STRING value.
FreeTmp(s) ==
    IF s.type = CFG_TYPE_STRING /\ s.tmp_string_buf # NULL
    THEN [s EXCEPT !.tmp_string_buf = NULL] ELSE s

\* The error of a wrong array member with the position of the comma or bracket.
WrongArrayMemberHere(s) ==
    Return1([s EXCEPT !.err = Cfg_Error(CFG_ERROR_UNEXPECTED_TOKEN,
                                        "Wrong array member type",
                                        s.tokens[s.cur_token].line,
                                        s.tokens[s.cur_token].column,
                                        NULL, NULL)])

WrongArrayMember(s) ==
    Return1([s EXCEPT !.err = Cfg_Error(CFG_ERROR_UNEXPECTED_TOKEN,
                                        "Wrong array member type",
                                        s.tokens[s.cur_token - 1].line,
                                        s.tokens[s.cur_token - 1].column,
                                        NULL, NULL)])

\* type != ctx->vars[0].type, guarded by ctx->vars_len > 0
FirstTypeDiffers(s) ==
    /\ Len(s.nodes[s.ctx].vars) > 0
    /\ s.type # s.nodes[s.nodes[s.ctx].vars[1]].type

OnEq(s) == [s EXCEPT !.expected_token = ValueStart]

OnSemicolonTail(s) ==
    [s EXCEPT !.name = NULL, !.value = NULL,
              !.expected_token = AfterSemicolon(s.stack)]

OnSemicolon(s, g) ==
    IF s.name # NULL /\ s.value # NULL
    THEN LET a == FreeTmp(cfg__context_add_variable(s, s.ctx, s.type, s.name, s.value, g))
         IN IF a.err.type # CFG_ERROR_NONE THEN Return1(a) ELSE OnSemicolonTail(a)
    ELSE OnSemicolonTail(s)

\* A comma that holds the members of a list to one type as it does those of
\* an array.
OnCommaSameType(s, g) ==
    IF cfg__stack_last_char(s.stack) \in {"[", "("} /\ FirstTypeDiffers(s)
    THEN WrongArrayMember(s)
    ELSE LET a == IF ~IsAggregate(s.type)
                  THEN cfg__context_add_variable(s, s.ctx, s.type, s.name, s.value, g)
                  ELSE s
             b == FreeTmp(a)
         IN IF b.err.type # CFG_ERROR_NONE
            THEN Return1(b)
            ELSE [b EXCEPT !.name = NULL, !.value = NULL,
                           !.expected_token = AfterComma(b.stack)]

\* A comma that appends what precedes it whatever its type.
OnCommaAddsAggregate(s, g) ==
    IF cfg__stack_last_char(s.stack) = "[" /\ FirstTypeDiffers(s)
    THEN WrongArrayMember(s)
    ELSE LET a == cfg__context_add_variable(s, s.ctx, s.type, s.name, s.value, g)
             b == FreeTmp(a)
         IN IF b.err.type # CFG_ERROR_NONE
            THEN Return1(b)
            ELSE [b EXCEPT !.name = NULL, !.value = NULL,
                           !.expected_token = AfterComma(b.stack)]

OnComma(s, g) ==
    IF cfg__stack_last_char(s.stack) = "[" /\ FirstTypeDiffers(s)
    THEN WrongArrayMember(s)
    ELSE LET a == IF ~IsAggregate(s.type)
                  THEN cfg__context_add_variable(s, s.ctx, s.type, s.name, s.value, g)
                  ELSE s
             b == FreeTmp(a)
         IN IF b.err.type # CFG_ERROR_NONE
            THEN Return1(b)
            ELSE [b EXCEPT !.name = NULL, !.value = NULL,
                           !.expected_token = AfterComma(b.stack)]

\* An opener that leaves its own closer out of the expected mask.
OnOpenNeedsMember(s, ch, type, expected, g) ==
    LET a == cfg__context_add_variable(
                 [s EXCEPT !.stack = cfg__stack_add_char(s.stack, ch),
                           !.type = type, !.value = NULL],
                 s.ctx, type, s.name, NULL, g)
    IN IF a.err.type # CFG_ERROR_NONE
       THEN Return1(a)
       ELSE [a EXCEPT !.name = NULL,
                      !.ctx = a.nodes[a.ctx].vars[Len(a.nodes[a.ctx].vars)],
                      !.expected_token = expected \ {CFG_TOKEN_RIGHT_BRACKET,
                                                     CFG_TOKEN_RIGHT_PARENTHESIS,
                                                     CFG_TOKEN_RIGHT_CURLY_BRACKET}]

\* An opener that keeps the declared name pending for what follows it.
OnOpenKeepsName(s, ch, type, expected, g) ==
    LET a == cfg__context_add_variable(
                 [s EXCEPT !.stack = cfg__stack_add_char(s.stack, ch),
                           !.type = type, !.value = NULL],
                 s.ctx, type, s.name, NULL, g)
    IN IF a.err.type # CFG_ERROR_NONE
       THEN Return1(a)
       ELSE [a EXCEPT !.ctx = a.nodes[a.ctx].vars[Len(a.nodes[a.ctx].vars)],
                      !.expected_token = expected]

\* LEFT_BRACKET, LEFT_PARENTHESIS, LEFT_CURLY_BRACKET
OnOpen(s, ch, type, expected, g) ==
    LET a == cfg__context_add_variable(
                 [s EXCEPT !.stack = cfg__stack_add_char(s.stack, ch),
                           !.type = type, !.value = NULL],
                 s.ctx, type, s.name, NULL, g)
    IN IF a.err.type # CFG_ERROR_NONE
       THEN Return1(a)
       ELSE [a EXCEPT !.name = NULL,
                      !.ctx = a.nodes[a.ctx].vars[Len(a.nodes[a.ctx].vars)],
                      !.expected_token = expected]

\* A closer that pops the stack and stays in the context it closes.
OnCloseStays(s, type) ==
    LET stack == cfg__stack_pop_char(s.stack)
    IN [s EXCEPT !.stack = stack,
                 !.expected_token = AfterValue(stack), !.type = type]

\* The part of a closer after the pending value, if any, was added.
OnCloseTail(s, type) ==
    LET stack == cfg__stack_pop_char(s.stack)
    IN [s EXCEPT !.stack = stack, !.ctx = s.nodes[s.ctx].prev,
                 !.expected_token = AfterValue(stack), !.type = type]

OnClosePending(s, type, g) ==
    LET a == FreeTmp(cfg__context_add_variable(s, s.ctx, s.type, s.name, s.value, g))
    IN IF a.err.type # CFG_ERROR_NONE
       THEN Return1(a)
       ELSE OnCloseTail([a EXCEPT !.value = NULL], type)

OnRightBracket(s, g) ==
    IF s.value # NULL
    THEN IF FirstTypeDiffers(s) THEN WrongArrayMember(s)
         ELSE OnClosePending(s, CFG_TYPE_ARRAY, g)
    ELSE OnCloseTail(s, CFG_TYPE_ARRAY)

OnRightParenthesis(s, g) ==
    IF s.value # NULL
    THEN OnClosePending(s, CFG_TYPE_LIST, g)
    ELSE OnCloseTail(s, CFG_TYPE_LIST)

OnRightCurly(s) ==
    OnCloseTail([s EXCEPT !.name = NULL, !.value = NULL], CFG_TYPE_STRUCT)

OnIdentifier(s, tok) ==
    [s EXCEPT !.name = tok.value, !.expected_token = {CFG_TOKEN_EQ}]

\* INT, DOUBLE, BOOL
OnScalar(s, tok, type) ==
    [s EXCEPT !.type = type, !.value = tok.value,
              !.expected_token = AfterValue(s.stack)]

\* A STRING token that is joined in front of the pending text.
OnStringPrepends(s, tok) ==
    LET joined == tok.value \o s.value
        a == IF s.prev_token = CFG_TOKEN_STRING
             THEN [s EXCEPT !.tmp_string_buf = joined, !.value = joined]
             ELSE [s EXCEPT !.value = tok.value]
    IN [a EXCEPT !.type = CFG_TYPE_STRING,
                 !.expected_token = AfterValue(s.stack) \cup {CFG_TOKEN_STRING}]

OnString(s, tok) ==
    LET joined == s.value \o tok.value
        a == IF s.prev_token = CFG_TOKEN_STRING
             THEN [s EXCEPT !.tmp_string_buf = joined, !.value = joined]
             ELSE [s EXCEPT !.value = tok.value]
    IN [a EXCEPT !.type = CFG_TYPE_STRING,
                 !.expected_token = AfterValue(s.stack) \cup {CFG_TOKEN_STRING}]

\* The else branch of the loop body without its return.
UnexpectedTokenGoesOn(s, tok) ==
    [s EXCEPT !.err = Cfg_Error(CFG_ERROR_UNEXPECTED_TOKEN, "Unexpected token",
                                tok.line, tok.column, NULL, NULL)]

UnexpectedToken(s, tok) ==
    Return1([s EXCEPT !.err = Cfg_Error(CFG_ERROR_UNEXPECTED_TOKEN, "Unexpected token",
                                        tok.line, tok.column, NULL, NULL)])

\* A test of the expected mask that lets the end of the input through.
ExpectedOrEnd(s, tok) ==
    tok.type \in s.expected_token \/ tok.type = CFG_TOKEN_EOF

Expected(s, tok) == tok.type \in s.expected_token

\* One iteration of the for loop, lexer->cur_token = i already done.
ParseBody(s, g) ==
    LET tok == s.tokens[s.cur_token]
        t == tok.type
    IN IF ~Expected(s, tok) THEN UnexpectedToken(s, tok)
       ELSE CASE t = CFG_TOKEN_EQ -> OnEq(s)
              [] t = CFG_TOKEN_SEMICOLON -> OnSemicolon(s, g)
              [] t = CFG_TOKEN_COMMA -> OnComma(s, g)
              [] t = CFG_TOKEN_LEFT_BRACKET ->
                    OnOpen(s, "[", CFG_TYPE_ARRAY,
                           ValueStart \cup {CFG_TOKEN_RIGHT_BRACKET}, g)
              [] t = CFG_TOKEN_RIGHT_BRACKET -> OnRightBracket(s, g)
              [] t = CFG_TOKEN_LEFT_PARENTHESIS ->
                    OnOpen(s, "(", CFG_TYPE_LIST,
                           ValueStart \cup {CFG_TOKEN_RIGHT_PARENTHESIS}, g)
              [] t = CFG_TOKEN_RIGHT_PARENTHESIS -> OnRightParenthesis(s, g)
              [] t = CFG_TOKEN_LEFT_CURLY_BRACKET ->
                    OnOpen(s, "{", CFG_TYPE_STRUCT,
                           {CFG_TOKEN_IDENTIFIER, CFG_TOKEN_RIGHT_CURLY_BRACKET}, g)
              [] t = CFG_TOKEN_RIGHT_CURLY_BRACKET -> OnRightCurly(s)
              [] t = CFG_TOKEN_IDENTIFIER -> OnIdentifier(s, tok)
              [] t = CFG_TOKEN_INT -> OnScalar(s, tok, CFG_TYPE_INT)
              [] t = CFG_TOKEN_DOUBLE -> OnScalar(s, tok, CFG_TYPE_DOUBLE)
              [] t = CFG_TOKEN_BOOL -> OnScalar(s, tok, CFG_TYPE_BOOL)
              [] t = CFG_TOKEN_STRING -> OnString(s, tok)
              [] OTHER -> s

\* The iteration for the token at cur_token: the loop body, prev_token =
\* tokens[i].type, and the loop's exit after the last token (the EOF token).
ParseIteration(s, g) ==
    LET a == ParseBody(s, g)
    IN IF a.rc = "return 1" THEN a
       ELSE [a EXCEPT !.prev_token = s.tokens[s.cur_token].type,
                      !.rc = IF s.cur_token = s.tokens_len
                             THEN "return 0" ELSE "loop"]

\* --------------------------------------------------- cfg__buffer_tokenize
\* A buffer is a sequence of one-character strings; the terminating NUL is
\* the cell after its last character.  BEYOND is a cell after the NUL: the
\* loop's test reading it is a read outside the buffer, after which nothing
\* is known of the run (status "overrun").
NUL == "NUL"
BEYOND == "BEYOND"

At(b, i) ==
    IF i <= Len(b) THEN b[i] ELSE IF i = Len(b) + 1 THEN NUL ELSE BEYOND

Digits == {"0", "1", "2", "3", "4", "5", "6", "7", "8", "9"}

isdigit(c) == c \in Digits

Punctuation ==
    [type : {CFG_TOKEN_EQ}, value : {"="}] \cup
    [type : {CFG_TOKEN_SEMICOLON}, value : {";"}] \cup
    [type : {CFG_TOKEN_COMMA}, value : {","}] \cup
    [type : {CFG_TOKEN_LEFT_BRACKET}, value : {"["}] \cup
    [type : {CFG_TOKEN_RIGHT_BRACKET}, value : {"]"}] \cup
    [type : {CFG_TOKEN_LEFT_PARENTHESIS}, value : {"("}] \cup
    [type : {CFG_TOKEN_RIGHT_PARENTHESIS}, value : {")"}] \cup
    [type : {CFG_TOKEN_LEFT_CURLY_BRACKET}, value : {"{"}] \cup
    [type : {CFG_TOKEN_RIGHT_CURLY_BRACKET}, value : {"}"}]

PunctuationChars == {q.value : q \in Punctuation}

PunctuationType(c) == (CHOOSE q \in Punctuation : q.value = c).type

\* The characters that end the word loop.
WordEnd == {" ", NUL, "\n"} \cup PunctuationChars

\* cfg__lexer_create, and lexer->ch_current = buffer
TokenizerStart ==
    [ch_current |-> 1, str_start |-> 0, tokens |-> <<>>, line |-> 1, column |-> 1,
     comment_eol |-> FALSE, comment |-> FALSE, status |-> "run"]

NoTokenizer == [TokenizerStart EXCEPT !.status = "none"]

cfg__lexer_add_token(L, type, value) ==
    [L EXCEPT !.tokens = Append(@, [type |-> type, value |-> value,
                                    line |-> L.line, column |-> L.column])]

\* lexer->ch_current++; lexer->column++;
Advance(L) == [L EXCEPT !.ch_current = @ + 1, !.column = @ + 1]

\* The text of b[from .. to-1]
RECURSIVE Text(_, _, _)
Text(b, from, to) ==
    IF from >= to THEN "" ELSE b[from] \o Text(b, from + 1, to)

\* The first index at or after i where the number loop stops.
RECURSIVE NumberEnd(_, _)
NumberEnd(b, i) ==
    IF isdigit(At(b, i)) \/ At(b, i) = "." THEN NumberEnd(b, i + 1) ELSE i

Dots(b, from, to) == Cardinality({i \in from..(to - 1) : b[i] = "."})

\* The first index at or after i where the word loop stops.
RECURSIVE WordEndAt(_, _)
WordEndAt(b, i) ==
    IF At(b, i) \in WordEnd THEN i ELSE WordEndAt(b, i + 1)

\* cfg__lexer_parse_string_buffer: r.str is the string under construction,
\* r.i the index of lexer->ch_current.
Escape(c) ==
    CASE c = "n" -> "\n"
      [] c = "t" -> "\t"
      [] c = "\"" -> "\""
      [] c = "'" -> "'"
      [] OTHER -> "\\" \o c

RECURSIVE ParseStringFrom(_, _, _, _)
ParseStringFrom(b, i, str, backslash) ==
    LET c == At(b, i)
    IN IF c = NUL \/ (c = "\"" /\ ~backslash)
       THEN [str |-> str, i |-> i]
       ELSE IF c = "\\"
            THEN IF backslash
                 THEN ParseStringFrom(b, i + 1, str \o "\\", FALSE)
                 ELSE ParseStringFrom(b, i + 1, str, TRUE)
            ELSE IF backslash
                 THEN ParseStringFrom(b, i + 1, str \o Escape(c), FALSE)
                 ELSE ParseStringFrom(b, i + 1, str \o c, FALSE)

\* L.ch_current is the first character of the string; the result has the
\* string in str and the lexer after the closing quote (at the NUL, with the
\* string emptied, when the quote is missing).
cfg__lexer_parse_string_buffer(b, L) ==
    LET r == ParseStringFrom(b, L.ch_current, "", FALSE)
        moved == [L EXCEPT !.ch_current = r.i,
                           !.column = @ + (r.i - L.ch_current)]
    IN IF At(b, r.i) = NUL
       THEN [str |-> "", L |-> moved]
       ELSE [str |-> r.str, L |-> Advance(moved)]

\* A number branch that makes a DOUBLE token of any number of dots.
TokNumberAnyDots(b, L) ==
    LET to == NumberEnd(b, L.ch_current)
        moved == [L EXCEPT !.str_start = L.ch_current, !.ch_current = to,
                           !.column = @ + (to - L.ch_current)]
    IN cfg__lexer_add_token(moved,
           IF Dots(b, L.ch_current, to) < 1 THEN CFG_TOKEN_INT
           ELSE CFG_TOKEN_DOUBLE,
           Text(b, L.ch_current, to))

TokNumber(b, L) ==
    LET to == NumberEnd(b, L.ch_current)
        moved == [L EXCEPT !.str_start = L.ch_current, !.ch_current = to,
                           !.column = @ + (to - L.ch_current)]
    IN IF Dots(b, L.ch_current, to) > 1
       THEN [moved EXCEPT !.status = "unknown token"]
       ELSE cfg__lexer_add_token(moved,
                IF Dots(b, L.ch_current, to) < 1 THEN CFG_TOKEN_INT
                ELSE CFG_TOKEN_DOUBLE,
                Text(b, L.ch_current, to))

TokString(b, L) ==
    LET r == cfg__lexer_parse_string_buffer(b,
                 [L EXCEPT !.ch_current = @ + 1, !.str_start = L.ch_current + 1])
    IN cfg__lexer_add_token(r.L, CFG_TOKEN_STRING, r.str)

\* The word branch: a BOOL token is followed by continue, an IDENTIFIER token
\* by the increment that ends the loop body.
TokWord(b, L) ==
    LET to == WordEndAt(b, L.ch_current)
        moved == [L EXCEPT !.str_start = L.ch_current, !.ch_current = to,
                           !.column = @ + (to - L.ch_current)]
        value == Text(b, L.ch_current, to)
    IN IF to = L.ch_current THEN Advance(moved)
       ELSE IF value \in {"true", "false"}
            THEN cfg__lexer_add_token(moved, CFG_TOKEN_BOOL, value)
            ELSE Advance(cfg__lexer_add_token(moved, CFG_TOKEN_IDENTIFIER, value))

\* The switch statement and what follows it in the loop body.
TokSwitch(b, L) ==
    LET c == At(b, L.ch_current)
    IN IF c = " " THEN Advance(L)
       ELSE IF c \in PunctuationChars
            THEN Advance(cfg__lexer_add_token(L, PunctuationType(c), c))
       ELSE IF isdigit(c) THEN TokNumber(b, L)
       ELSE IF c = "\"" THEN TokString(b, L)
       ELSE TokWord(b, L)

\* The second and third if of the loop body: a star inside a comment, and
\* the skipping of a commented character.
TokComment(b, L) ==
    LET star == At(b, L.ch_current) = "*" /\ L.comment
        L2 == IF star THEN Advance(L) ELSE L
    IN IF star /\ At(b, L2.ch_current) = "/"
       THEN Advance([L2 EXCEPT !.comment = FALSE])
       ELSE IF L2.comment \/ L2.comment_eol
            THEN Advance(L2)
            ELSE TokSwitch(b, L2)

\* The first if of the loop body: a slash.
TokSlash(b, L) ==
    LET L1 == Advance(L)
    IN IF At(b, L1.ch_current) = "/"
       THEN Advance([L1 EXCEPT !.comment_eol = TRUE])
       ELSE IF At(b, L1.ch_current) = "*"
            THEN Advance([L1 EXCEPT !.comment = TRUE])
            ELSE TokComment(b, L1)

\* One evaluation of the loop's test and, when it holds, one loop body.
TokIteration(b, L) ==
    LET c == At(b, L.ch_current)
    IN IF c = BEYOND THEN [L EXCEPT !.status = "overrun"]
       ELSE IF c = NUL
            THEN [cfg__lexer_add_token(L, CFG_TOKEN_EOF, "") EXCEPT !.status = "done"]
       ELSE IF c = "\n"
            THEN [L EXCEPT !.comment_eol = FALSE, !.line = @ + 1, !.column = 1,
                           !.ch_current = @ + 1]
       ELSE IF c = "/" THEN TokSlash(b, L)
       ELSE TokComment(b, L)

\* cfg__buffer_tokenize run to its end
RECURSIVE Tokenize(_, _)
Tokenize(b, L) ==
    IF L.status # "run" THEN L ELSE Tokenize(b, TokIteration(b, L))

cfg__buffer_tokenize(b) == Tokenize(b, TokenizerStart)

\* --------------------------------------------------- cfg__stream_tokenize
\* The stream is the sequence of characters b; the lexer's ch_current holds
\* the stream's position, the index of the character the next fgetc returns.
\* char is signed, so that the char fgetc's result is stored in equals EOF at
\* the end of the stream.
EOFC == "EOF"

fgetc(b, i) == IF i <= Len(b) THEN b[i] ELSE EOFC

\* The position after an fgetc at position i.
Read(b, i) == IF i <= Len(b) THEN i + 1 ELSE i

\* fgetc into c with the lexer's column left alone.
Fetch(b, L) == [L EXCEPT !.ch_current = Read(b, @)]

\* ungetc(c, stream) after an fgetc at position i returned c.
ungetc(c, i) == IF c = EOFC THEN i ELSE i - 1

\* The characters that end the word loop.
StreamWordEnd == {" ", EOFC, "\n"} \cup PunctuationChars

\* The first index at or after i the number loop stops at.
RECURSIVE StreamNumberEnd(_, _)
StreamNumberEnd(b, i) ==
    IF isdigit(fgetc(b, i)) \/ fgetc(b, i) = "." THEN StreamNumberEnd(b, i + 1) ELSE i

\* The first index at or after i the word loop stops at.
RECURSIVE StreamWordEndAt(_, _)
StreamWordEndAt(b, i) ==
    IF fgetc(b, i) \in StreamWordEnd THEN i ELSE StreamWordEndAt(b, i + 1)

\* The loop of cfg__lexer_parse_string_stream with c read at index i.
RECURSIVE StreamStringFrom(_, _, _, _)
StreamStringFrom(b, i, str, backslash) ==
    LET c == fgetc(b, i)
    IN IF c = EOFC \/ (c = "\"" /\ ~backslash)
       THEN [str |-> str, i |-> i]
       ELSE IF c = "\\"
            THEN IF backslash
                 THEN StreamStringFrom(b, i + 1, str \o c, FALSE)
                 ELSE StreamStringFrom(b, i + 1, str, TRUE)
            ELSE IF backslash
                 THEN StreamStringFrom(b, i + 1, str \o Escape(c), FALSE)
                 ELSE StreamStringFrom(b, i + 1, str \o c, FALSE)

\* L.ch_current is the position after the opening quote.  The closing quote
\* or the end of the stream is read; at the end of the stream the characters
\* read so far are the string.
cfg__lexer_parse_string_stream(b, L) ==
    LET r == StreamStringFrom(b, L.ch_current, "", FALSE)
    IN [str |-> r.str,
        L |-> [L EXCEPT !.ch_current = Read(b, r.i),
                        !.column = @ + (r.i - L.ch_current)]]

\* The number branch; the number's first character was read at from.
StreamNumber(b, L, from) ==
    LET to == StreamNumberEnd(b, from)
        moved == [L EXCEPT !.ch_current = Read(b, to),
                           !.column = @ + (to - from)]
    IN IF Dots(b, from, to) > 1
       THEN [moved EXCEPT !.status = "unknown token"]
       ELSE [cfg__lexer_add_token(moved,
                 IF Dots(b, from, to) < 1 THEN CFG_TOKEN_INT ELSE CFG_TOKEN_DOUBLE,
                 Text(b, from, to))
             EXCEPT !.ch_current = ungetc(fgetc(b, to), Read(b, to))]

StreamString(b, L) ==
    LET r == cfg__lexer_parse_string_stream(b, L)
    IN [cfg__lexer_add_token(r.L, CFG_TOKEN_STRING, r.str) EXCEPT !.column = @ + 1]

\* The word branch; the character c was read at from, or is the end of the
\* stream.
StreamWord(b, L, c, from) ==
    LET to == IF c = EOFC THEN from ELSE StreamWordEndAt(b, from)
        moved == [L EXCEPT !.ch_current = Read(b, to),
                           !.column = @ + (to - from)]
        value == Text(b, from, to)
    IN IF to = from THEN [L EXCEPT !.column = @ + 1]
       ELSE [cfg__lexer_add_token(moved,
                 IF value \in {"true", "false"} THEN CFG_TOKEN_BOOL
                 ELSE CFG_TOKEN_IDENTIFIER,
                 value)
             EXCEPT !.ch_current = ungetc(fgetc(b, to), Read(b, to))]

\* The switch statement, for the character c read at from.
StreamSwitch(b, L, c, from) ==
    IF c = " " THEN [L EXCEPT !.column = @ + 1]
    ELSE IF c \in PunctuationChars
         THEN [cfg__lexer_add_token(L, PunctuationType(c), c) EXCEPT !.column = @ + 1]
    ELSE IF isdigit(c) THEN StreamNumber(b, L, from)
    ELSE IF c = "\"" THEN StreamString(b, L)
    ELSE StreamWord(b, L, c, from)

\* The second and third if of the loop body.
StreamComment(b, L, c, from) ==
    LET star == c = "*" /\ L.comment
        L2 == IF star THEN Fetch(b, [L EXCEPT !.column = @ + 1]) ELSE L
        c2 == IF star THEN fgetc(b, L.ch_current) ELSE c
        from2 == IF star THEN L.ch_current ELSE from
    IN IF star /\ c2 = "/"
       THEN [L2 EXCEPT !.comment = FALSE, !.column = @ + 1]
       ELSE IF L2.comment \/ L2.comment_eol
            THEN [L2 EXCEPT !.column = @ + 1]
            ELSE StreamSwitch(b, L2, c2, from2)

\* The first if of the loop body: a slash.
StreamSlash(b, L) ==
    LET c == fgetc(b, L.ch_current)
        L1 == Fetch(b, [L EXCEPT !.column = @ + 1])
    IN IF c = "/" THEN [L1 EXCEPT !.comment_eol = TRUE, !.column = @ + 1]
       ELSE IF c = "*" THEN [L1 EXCEPT !.comment = TRUE, !.column = @ + 1]
       ELSE StreamComment(b, L1, c, L.ch_current)

\* One evaluation of the loop's test and, when it holds, one loop body.
StreamIteration(b, L) ==
    LET c == fgetc(b, L.ch_current)
        L0 == Fetch(b, L)
    IN IF c = EOFC
       THEN [cfg__lexer_add_token(L0, CFG_TOKEN_EOF, "") EXCEPT !.status = "done"]
       ELSE IF c = "\n"
            THEN [L0 EXCEPT !.comment_eol = FALSE, !.line = @ + 1, !.column = 1]
       ELSE IF c = "/" THEN StreamSlash(b, L0)
       ELSE StreamComment(b, L0, c, L.ch_current)

RECURSIVE StreamTokenize(_, _)
StreamTokenize(b, L) ==
    IF L.status # "run" THEN L ELSE StreamTokenize(b, StreamIteration(b, L))

cfg__stream_tokenize(b) == StreamTokenize(b, TokenizerStart)

\* ------------------------------------- the singleton document and its files
\* The version of the library that keeps one static Cfg_Config and loads
\* files into it.  A pointer is the index in heap of the block or stream it
\* was obtained as, 0 when it is NULL; a block counts how often it was
\* released (free, fclose) and whether it was read after its release.
Block(kind) == [kind |-> kind, released |-> 0, used_after |-> FALSE]

Alloc(h, kind) == Append(h, Block(kind))

free(h, ptr) == [h EXCEPT ![ptr].released = @ + 1]

ReadBlock(h, ptr) ==
    IF h[ptr].released > 0 THEN [h EXCEPT ![ptr].used_after = TRUE] ELSE h

\* The blocks whose use is undefined behaviour.
Faults(h) == {i \in 1..Len(h) : h[i].released > 1 \/ h[i].used_after}

\* static Cfg_Config cfg: zero-initialised
StaticConfig ==
    [vars |-> 0, vars_len |-> 0, message |-> 0, file |-> 0, err |-> CFG_ERROR_NONE]

\* cfg__context_free(&cfg.global): the loop reads the children out of the
\* block of cfg.global.vars, then the block is freed; the name and the value
\* of the global context are NULL.
cfg__context_free(h, c) ==
    IF c.vars # 0
    THEN free(IF c.vars_len > 0 THEN ReadBlock(h, c.vars) ELSE h, c.vars)
    ELSE h

cfg__config_free(h, c) ==
    LET h1 == cfg__context_free(h, c)
        h2 == IF c.message # 0 THEN free(h1, c.message) ELSE h1
    IN IF c.file # 0 THEN free(h2, c.file) ELSE h2

\* The result is the heap and the configuration after the call.
cfg__config_create(h, c) ==
    LET h1 == Alloc(h, "tree")
        h2 == Alloc(h1, "message")
    IN [heap |-> h2,
        cfg |-> [c EXCEPT !.vars = Len(h1), !.vars_len = 0,
                          !.err = CFG_ERROR_NONE, !.message = Len(h2)]]

\* fopen succeeds or not; the message of the failure is written into
\* cfg.err.message.
cfg__file_open(w, opens) ==
    IF opens
    THEN [heap |-> Alloc(w.heap, "file"),
          cfg |-> [w.cfg EXCEPT !.file = Len(w.heap) + 1], rc |-> 0]
    ELSE [heap |-> ReadBlock(w.heap, w.cfg.message),
          cfg |-> [w.cfg EXCEPT !.err = CFG_ERROR_OPEN_FILE], rc |-> 1]

\* What cfg__file_parse can leave in cfg.err.type.
ParseOutcomes ==
    {CFG_ERROR_NONE, CFG_ERROR_UNKNOWN_TOKEN, CFG_ERROR_UNEXPECTED_TOKEN,
     CFG_ERROR_VARIABLE_REDEFINITION}

\* cfg__file_parse reads the stream and adds len variables to the global
\* context before it returns.
cfg__file_parse(w, outcome, len) ==
    [heap |-> ReadBlock(w.heap, w.cfg.file),
     cfg |-> [w.cfg EXCEPT !.vars_len = len, !.err = outcome],
     rc |-> IF outcome = CFG_ERROR_NONE THEN 0 ELSE 1]

NoCall == [n |-> 0, last |-> "none", ret |-> 0, running |-> TRUE]

\* No path has been given to a load.
NoPath == [exists |-> FALSE, blanks |-> 0, opened |-> 0, closed |-> 0]

StaticInit ==
    /\ cfg = StaticConfig
    /\ heap = <<>>
    /\ call = NoCall
    /\ path = NoPath

\* ------------------------------------------------------------ the accessors
\* The index of the first child of ctx named name, -1 when there is none.
\* strcmp against a child whose name is NULL is undefined: -2 stands for it.
RECURSIVE FindFrom(_, _, _, _)
FindFrom(ns, ctx, name, i) ==
    IF i > Len(ns[ctx].vars) THEN -1
    ELSE IF ns[ns[ctx].vars[i]].name = NULL THEN -2
    ELSE IF ns[ns[ctx].vars[i]].name = name THEN i - 1
    ELSE FindFrom(ns, ctx, name, i + 1)

cfg__context_find_variable(ns, ctx, name) == FindFrom(ns, ctx, name, 1)

cfg_get_context_len(ns, ctx) == Len(ns[ctx].vars)

cfg_get_type(ns, ctx, name) ==
    LET i == cfg__context_find_variable(ns, ctx, name)
    IN IF i = -1 THEN CFG_TYPE_NONE
       ELSE IF i = -2 THEN "undefined"
       ELSE ns[ns[ctx].vars[i + 1]].type

cfg_get_type_elem(ns, ctx, idx) ==
    IF idx >= Len(ns[ctx].vars) THEN CFG_TYPE_NONE
    ELSE ns[ns[ctx].vars[idx + 1]].type

cfg_get_name(ns, ctx, idx) ==
    IF idx >= Len(ns[ctx].vars) THEN NULL
    ELSE ns[ns[ctx].vars[idx + 1]].name

\* sscanf on the text of a number token, which is at most MaxNum characters
\* long in the inputs of a whole load: digits for "%d", digits with one dot
\* after the first digit for "%lf".  A double is the fraction num / den.
DigitChar == <<"0", "1", "2", "3", "4", "5", "6", "7", "8", "9">>

DigitSeqs(n) == [1..n -> 0..9]

RECURSIVE Numeral(_)
Numeral(ds) ==
    IF ds = <<>> THEN "" ELSE DigitChar[Head(ds) + 1] \o Numeral(Tail(ds))

RECURSIVE ValueOf(_)
ValueOf(ds) ==
    IF ds = <<>> THEN 0 ELSE ValueOf(SubSeq(ds, 1, Len(ds) - 1)) * 10 + ds[Len(ds)]

RECURSIVE Pow10(_)
Pow10(n) == IF n = 0 THEN 1 ELSE 10 * Pow10(n - 1)

IntTexts ==
    {[text |-> Numeral(ds), res |-> ValueOf(ds)] :
        ds \in UNION {DigitSeqs(n) : n \in 1..MaxNum}}

DoubleTexts ==
    {[text |-> Numeral(pr[1]) \o "." \o Numeral(pr[2]),
      num |-> ValueOf(pr[1] \o pr[2]), den |-> Pow10(Len(pr[2]))] :
        pr \in UNION {UNION {DigitSeqs(a) \X DigitSeqs(b) : b \in 0..(MaxNum - 1 - a)} :
                         a \in 1..(MaxNum - 1)}}

\* sscanf(value, "%d", &res): n is what sscanf returns
sscanf_d(value) ==
    LET hits == {e \in IntTexts : e.text = value}
    IN IF hits = {} THEN [n |-> 0, res |-> 0]
       ELSE [n |-> 1, res |-> (CHOOSE e \in hits : TRUE).res]

\* sscanf(value, "%lf", &res)
sscanf_lf(value) ==
    LET hits == {e \in DoubleTexts : e.text = value}
    IN IF hits = {} THEN [n |-> 0, num |-> 0, den |-> 1]
       ELSE LET e == CHOOSE h \in hits : TRUE
            IN [n |-> 1, num |-> e.num, den |-> e.den]

Double(num, den) == [num |-> num, den |-> den]

\* The child of ctx with index idx, counted from 0.
Var(ns, ctx, idx) == ns[ns[ctx].vars[idx + 1]]

IntOf(v) ==
    IF v.type # CFG_TYPE_INT THEN 0
    ELSE IF sscanf_d(v.value).n # 1 THEN 0 ELSE sscanf_d(v.value).res

DoubleOf(v) ==
    IF v.type # CFG_TYPE_DOUBLE THEN Double(0, 1)
    ELSE IF sscanf_lf(v.value).n # 1 THEN Double(0, 1)
         ELSE Double(sscanf_lf(v.value).num, sscanf_lf(v.value).den)

BoolOf(v) ==
    IF v.type # CFG_TYPE_BOOL THEN FALSE ELSE v.value = "true"

StringOf(v) ==
    IF v.type # CFG_TYPE_STRING THEN NULL ELSE v.value

cfg_get_int(ns, ctx, name) ==
    LET i == cfg__context_find_variable(ns, ctx, name)
    IN IF i = -1 THEN 0
       ELSE IF i = -2 THEN "undefined"
       ELSE IntOf(Var(ns, ctx, i))

cfg_get_double(ns, ctx, name) ==
    LET i == cfg__context_find_variable(ns, ctx, name)
    IN IF i = -1 THEN Double(0, 1)
       ELSE IF i = -2 THEN "undefined"
       ELSE DoubleOf(Var(ns, ctx, i))

cfg_get_bool(ns, ctx, name) ==
    LET i == cfg__context_find_variable(ns, ctx, name)
    IN IF i = -1 THEN FALSE
       ELSE IF i = -2 THEN "undefined"
       ELSE BoolOf(Var(ns, ctx, i))

cfg_get_string(ns, ctx, name) ==
    LET i == cfg__context_find_variable(ns, ctx, name)
    IN IF i = -1 THEN NULL
       ELSE IF i = -2 THEN "undefined"
       ELSE StringOf(Var(ns, ctx, i))

\* The node of the list named name, 0 for NULL.
cfg_get_list(ns, ctx, name) ==
    LET i == cfg__context_find_variable(ns, ctx, name)
    IN IF i = -1 THEN 0
       ELSE IF i = -2 THEN "undefined"
       ELSE IF Var(ns, ctx, i).type # CFG_TYPE_LIST THEN 0
       ELSE ns[ctx].vars[i + 1]

cfg_get_int_elem(ns, ctx, idx) ==
    IF idx >= Len(ns[ctx].vars) THEN 0 ELSE IntOf(Var(ns, ctx, idx))

cfg_get_double_elem(ns, ctx, idx) ==
    IF idx >= Len(ns[ctx].vars) THEN Double(0, 1) ELSE DoubleOf(Var(ns, ctx, idx))

cfg_get_bool_elem(ns, ctx, idx) ==
    IF idx >= Len(ns[ctx].vars) THEN FALSE ELSE BoolOf(Var(ns, ctx, idx))

cfg_get_string_elem(ns, ctx, idx) ==
    IF idx >= Len(ns[ctx].vars) THEN NULL ELSE StringOf(Var(ns, ctx, idx))

\* cfg_get_array, cfg_get_list, cfg_get_struct: the node, 0 for NULL
NodeOf(ns, ctx, name, type) ==
    LET i == cfg__context_find_variable(ns, ctx, name)
    IN IF i = -1 THEN 0
       ELSE IF i = -2 THEN "undefined"
       ELSE IF Var(ns, ctx, i).type # type THEN 0
       ELSE ns[ctx].vars[i + 1]

cfg_get_array(ns, ctx, name) == NodeOf(ns, ctx, name, CFG_TYPE_ARRAY)

cfg_get_struct(ns, ctx, name) == NodeOf(ns, ctx, name, CFG_TYPE_STRUCT)

\* cfg_get_array_elem, cfg_get_list_elem, cfg_get_struct_elem
NodeAt(ns, ctx, idx, type) ==
    IF idx >= Len(ns[ctx].vars) THEN 0
    ELSE IF Var(ns, ctx, idx).type # type THEN 0
    ELSE ns[ctx].vars[idx + 1]

cfg_get_array_elem(ns, ctx, idx) == NodeAt(ns, ctx, idx, CFG_TYPE_ARRAY)

cfg_get_list_elem(ns, ctx, idx) == NodeAt(ns, ctx, idx, CFG_TYPE_LIST)

cfg_get_struct_elem(ns, ctx, idx) == NodeAt(ns, ctx, idx, CFG_TYPE_STRUCT)

\* What a safe getter works on: the tree, cfg->err, and ctxerr, the err.type
\* field of every context that a safe getter has written.  No other code
\* writes that field: on a context that is not in ctxerr it holds what malloc
\* left there.
Doc(ns, e, ce) == [nodes |-> ns, err |-> e, ctxerr |-> ce]

\* ctx->err.type = type
SetContextErr(d, ctx, type) ==
    [d EXCEPT !.ctxerr = {c \in @ : c.ctx # ctx} \cup {[ctx |-> ctx, type |-> type]}]

\* A safe getter that records its error on the document.
FailedOnDocument(d, ctx, type, res) ==
    [doc |-> [d EXCEPT !.err.type = type], rc |-> type, res |-> res]

\* The returns of a safe getter: the document it leaves, the value returned
\* and the content of *res, which was res when the call was made.
Failed(d, ctx, type, res) ==
    [doc |-> SetContextErr(d, ctx, type), rc |-> type, res |-> res]

Got(d, res) == [doc |-> d, rc |-> CFG_ERROR_NONE, res |-> res]

\* The call compared the name with a NULL name: nothing is known of it.
Undefined(d, res) == [doc |-> d, rc |-> "undefined", res |-> res]

\* The lookup and the test of the type, which open every safe getter.
SafeLookup(d, ctx, name, type) ==
    LET i == cfg__context_find_variable(d.nodes, ctx, name)
    IN IF i = -1 THEN CFG_ERROR_VARIABLE_NOT_FOUND
       ELSE IF i = -2 THEN "undefined"
       ELSE IF Var(d.nodes, ctx, i).type # type THEN CFG_ERROR_VARIABLE_WRONG_TYPE
       ELSE CFG_ERROR_NONE

\* The child the lookup found.
Found(d, ctx, name) ==
    Var(d.nodes, ctx, cfg__context_find_variable(d.nodes, ctx, name))

cfg_get_int_safe(d, ctx, name, res) ==
    LET e == SafeLookup(d, ctx, name, CFG_TYPE_INT)
    IN IF e = "undefined" THEN Undefined(d, res)
       ELSE IF e # CFG_ERROR_NONE THEN Failed(d, ctx, e, res)
       ELSE IF sscanf_d(Found(d, ctx, name).value).n # 1
            THEN Failed(d, ctx, CFG_ERROR_VARIABLE_PARSE, res)
       ELSE Got(d, sscanf_d(Found(d, ctx, name).value).res)

cfg_get_double_safe(d, ctx, name, res) ==
    LET e == SafeLookup(d, ctx, name, CFG_TYPE_DOUBLE)
    IN IF e = "undefined" THEN Undefined(d, res)
       ELSE IF e # CFG_ERROR_NONE THEN Failed(d, ctx, e, res)
       ELSE IF sscanf_lf(Found(d, ctx, name).value).n # 1
            THEN Failed(d, ctx, CFG_ERROR_VARIABLE_PARSE, res)
       ELSE Got(d, Double(sscanf_lf(Found(d, ctx, name).value).num,
                          sscanf_lf(Found(d, ctx, name).value).den))

cfg_get_bool_safe(d, ctx, name, res) ==
    LET e == SafeLookup(d, ctx, name, CFG_TYPE_BOOL)
    IN IF e = "undefined" THEN Undefined(d, res)
       ELSE IF e # CFG_ERROR_NONE THEN Failed(d, ctx, e, res)
       ELSE Got(d, Found(d, ctx, name).value = "true")

cfg_get_string_safe(d, ctx, name, res) ==
    LET e == SafeLookup(d, ctx, name, CFG_TYPE_STRING)
    IN IF e = "undefined" THEN Undefined(d, res)
       ELSE IF e # CFG_ERROR_NONE THEN Failed(d, ctx, e, res)
       ELSE Got(d, Found(d, ctx, name).value)

\* cfg_get_array_safe, cfg_get_list_safe, cfg_get_struct_safe: *res is the node
NodeSafe(d, ctx, name, type, res) ==
    LET e == SafeLookup(d, ctx, name, type)
    IN IF e = "undefined" THEN Undefined(d, res)
       ELSE IF e # CFG_ERROR_NONE THEN Failed(d, ctx, e, res)
       ELSE Got(d, d.nodes[ctx].vars[cfg__context_find_variable(d.nodes, ctx, name) + 1])

cfg_get_array_safe(d, ctx, name, res) == NodeSafe(d, ctx, name, CFG_TYPE_ARRAY, res)

cfg_get_list_safe(d, ctx, name, res) == NodeSafe(d, ctx, name, CFG_TYPE_LIST, res)

cfg_get_struct_safe(d, ctx, name, res) == NodeSafe(d, ctx, name, CFG_TYPE_STRUCT, res)

cfg_err_type == err.type

\* cfg_global_context
cfg_global_context == 1

\* ------------------------------------------------------------ the inputs
Names == {"a", "b"}

\* Kind and text of the tokens a tokenizer run can hand over.
TokenInputs ==
    {[type |-> CFG_TOKEN_EQ, value |-> "="],
     [type |-> CFG_TOKEN_SEMICOLON, value |-> ";"],
     [type |-> CFG_TOKEN_COMMA, value |-> ","],
     [type |-> CFG_TOKEN_LEFT_BRACKET, value |-> "["],
     [type |-> CFG_TOKEN_RIGHT_BRACKET, value |-> "]"],
     [type |-> CFG_TOKEN_LEFT_PARENTHESIS, value |-> "("],
     [type |-> CFG_TOKEN_RIGHT_PARENTHESIS, value |-> ")"],
     [type |-> CFG_TOKEN_LEFT_CURLY_BRACKET, value |-> "{"],
     [type |-> CFG_TOKEN_RIGHT_CURLY_BRACKET, value |-> "}"],
     [type |-> CFG_TOKEN_EOF, value |-> ""],
     [type |-> CFG_TOKEN_INT, value |-> "1"],
     [type |-> CFG_TOKEN_DOUBLE, value |-> "2.5"],
     [type |-> CFG_TOKEN_BOOL, value |-> "true"],
     [type |-> CFG_TOKEN_STRING, value |-> "x"]}
    \cup {[type |-> CFG_TOKEN_IDENTIFIER, value |-> n] : n \in Names}

\* The i-th token of a load is recorded at line 1, column i.
Cfg_Token(in, i) ==
    [type |-> in.type, value |-> in.value, line |-> 1, column |-> i]

\* What an out-of-bounds read of a token's line and column can yield.
Garbage == {[line |-> 0, column |-> 0], [line |-> 1, column |-> 1]}

\* The outcomes of the read of tokens[cur_token - 3] in the iteration for the
\* next token: one, which is not used, when the index is inside the array.
GarbageNow ==
    IF lexer.cur_token + 1 - 3 >= 1 THEN {[line |-> 0, column |-> 0]} ELSE Garbage

\* Where cfg__buffer_tokenize can report an unknown token.
UnknownTokenColumns == {4, 5}

\* ------------------------------------------------------------ the document
NoLexer == [tokens |-> <<>>, tokens_len |-> 0, cur_token |-> 0, stack |-> <<>>]

NoLocals ==
    [prev_token |-> "0", expected_token |-> {}, type |-> CFG_TYPE_NONE,
     name |-> NULL, value |-> NULL, tmp_string_buf |-> NULL, ctx |-> 0]

\* No accessor has been called.
NoGet ==
    [n |-> 0, fn |-> "none", ctx |-> 0, name |-> NULL, idx |-> 0,
     before |-> NULL, rc |-> "none", res |-> NULL]

\* cfg_config_init
ConfigInit ==
    /\ nodes = <<GlobalNode>>
    /\ err = NoError
    /\ lexer = NoLexer
    /\ p = NoLocals
    /\ pc = "idle"
    /\ ret = CFG_ERROR_NONE
    /\ loads = 0
    /\ budget = MaxTokens
    /\ ctxerr = {}
    /\ got = NoGet
    /\ released = <<>>

Init ==
    /\ ConfigInit
    /\ buf = <<>>
    /\ lx = NoTokenizer
    /\ entry = "none"
    /\ StaticInit

\* cfg__lexer_create, and the declarations that open cfg__parse_tokens
cfg__lexer_create == NoLexer

ParseLocals ==
    [prev_token |-> "0",
     expected_token |-> {CFG_TOKEN_IDENTIFIER, CFG_TOKEN_EOF},
     type |-> CFG_TYPE_NONE, name |-> NULL, value |-> NULL,
     tmp_string_buf |-> NULL, ctx |-> 1]

\* cfg_load_buffer up to the first iteration of cfg__parse_tokens: the
\* tokenizer has returned a lexer.
cfg_load_buffer ==
    /\ pc = "idle"
    /\ loads < MaxLoads
    /\ budget > 0
    /\ lexer' = cfg__lexer_create
    /\ p' = ParseLocals
    /\ pc' = "parse"
    /\ loads' = loads + 1
    /\ UNCHANGED <<nodes, err, ret, budget, tokVars, fileVars, getVars>>

\* cfg_load_buffer when cfg__buffer_tokenize returns NULL: a number with two
\* dots.
cfg_load_buffer_unknown_token ==
    /\ pc = "idle"
    /\ loads < MaxLoads
    /\ \E c \in UnknownTokenColumns :
          err' = Cfg_Error(CFG_ERROR_UNKNOWN_TOKEN, "Unknown token", 1, c, NULL, NULL)
    /\ ret' = CFG_ERROR_UNKNOWN_TOKEN
    /\ loads' = loads + 1
    /\ UNCHANGED <<nodes, lexer, p, pc, budget, tokVars, fileVars, getVars>>

\* The state the iteration for the next token, in, starts from; the token
\* array ends with its EOF token.
LoadState(in) ==
    [nodes |-> nodes, err |-> err,
     tokens |-> Append(lexer.tokens, Cfg_Token(in, lexer.cur_token + 1)),
     tokens_len |-> IF in.type = CFG_TOKEN_EOF THEN lexer.cur_token + 1
                    ELSE lexer.cur_token + 2,
     cur_token |-> lexer.cur_token + 1,
     stack |-> lexer.stack,
     prev_token |-> p.prev_token, expected_token |-> p.expected_token,
     type |-> p.type, name |-> p.name, value |-> p.value,
     tmp_string_buf |-> p.tmp_string_buf, ctx |-> p.ctx, rc |-> "loop"]

\* What the iteration for the next token, in, leaves behind.
Iteration(in, g) == ParseIteration(LoadState(in), g)

\* cfg_load_buffer after cfg__parse_tokens returned: the value it returns.
LoadResult(a) ==
    IF a.rc = "return 1" THEN a.err.type ELSE CFG_ERROR_NONE

\* One iteration of the loop of cfg__parse_tokens; on its last iteration and
\* on return 1 the rest of cfg_load_buffer: cfg__lexer_free and the return.
\* The last token of the budget is one the parse ends on.
ParseToken ==
    /\ pc = "parse"
    /\ \E in \in TokenInputs, g \in GarbageNow :
          \E a \in {Iteration(in, g)} :
             /\ budget = 1 => a.rc # "loop"
             /\ nodes' = a.nodes
             /\ err' = a.err
             /\ IF a.rc = "loop"
                THEN /\ lexer' = [tokens |-> a.tokens, tokens_len |-> a.tokens_len,
                                  cur_token |-> a.cur_token, stack |-> a.stack]
                     /\ p' = [prev_token |-> a.prev_token,
                              expected_token |-> a.expected_token,
                              type |-> a.type, name |-> a.name, value |-> a.value,
                              tmp_string_buf |-> a.tmp_string_buf, ctx |-> a.ctx]
                     /\ pc' = "parse"
                     /\ ret' = ret
                ELSE /\ lexer' = NoLexer
                     /\ p' = NoLocals
                     /\ pc' = "idle"
                     /\ ret' = LoadResult(a)
    /\ budget' = budget - 1
    /\ UNCHANGED <<loads, tokVars, fileVars, getVars>>

Next == cfg_load_buffer \/ cfg_load_buffer_unknown_token \/ ParseToken

Spec == Init /\ [][Next]_vars

\* ------------------------------------------ the tokenizer on its own
\* The inputs of cfg__buffer_tokenize: buffers made of up to MaxPieces
\* lexemes, and buffers of up to MaxChars comment characters.
Lexemes ==
    {<<"x">>, <<"1">>, <<"t", "r", "u", "e">>, <<" ">>, <<"=">>, <<";">>,
     <<",">>, <<"[">>, <<"}">>, <<"\"">>}

CommentChars == {"/", "*", ";", " ", "\n"}

RECURSIVE Concat(_)
Concat(ps) == IF ps = <<>> THEN <<>> ELSE Head(ps) \o Concat(Tail(ps))

Buffers ==
    {Concat(ps) : ps \in UNION {[1..n -> Lexemes] : n \in 0..MaxPieces}}
    \cup UNION {[1..n -> CommentChars] : n \in 0..MaxChars}

InitTok ==
    /\ ConfigInit
    /\ buf \in Buffers
    /\ lx = NoTokenizer
    /\ entry = "none"
    /\ StaticInit

\* A call of cfg__buffer_tokenize on the buffer.
TokenizeBuffer ==
    /\ lx.status = "none"
    /\ lx' = cfg__buffer_tokenize(buf)
    /\ UNCHANGED <<buf, entry, released, path, err, docVars, fileVars, getVars>>

NextTok == TokenizeBuffer

SpecTok == InitTok /\ [][NextTok]_vars


\* ------------------------------------------------ a whole load on its own
\* cfg__parse_tokens from its first iteration to its return
RECURSIVE ParseFrom(_, _)
ParseFrom(s, g) ==
    LET a == ParseIteration([s EXCEPT !.cur_token = @ + 1], g)
    IN IF a.rc = "loop" THEN ParseFrom(a, g) ELSE a

cfg__parse_tokens(ns, e, L, g) ==
    ParseFrom([nodes |-> ns, err |-> e,
               tokens |-> L.tokens, tokens_len |-> Len(L.tokens),
               cur_token |-> 0, stack |-> cfg__lexer_create.stack,
               prev_token |-> ParseLocals.prev_token,
               expected_token |-> ParseLocals.expected_token,
               type |-> ParseLocals.type, name |-> ParseLocals.name,
               value |-> ParseLocals.value,
               tmp_string_buf |-> ParseLocals.tmp_string_buf,
               ctx |-> ParseLocals.ctx, rc |-> "loop"], g)

\* The body of cfg_load_buffer and of cfg_load_stream once the tokenizer has
\* returned L: the tree, the error and the value returned.  A tokenizer that
\* stopped at a number with two dots has set the error and returned NULL; of
\* one that read beyond its buffer nothing is known.
LoadTokens(ns, e, L, g) ==
    IF L.status = "unknown token"
    THEN [nodes |-> ns,
          err |-> Cfg_Error(CFG_ERROR_UNKNOWN_TOKEN, "Unknown token",
                            L.line, L.column, NULL, NULL),
          ret |-> CFG_ERROR_UNKNOWN_TOKEN]
    ELSE IF L.status = "done"
         THEN LET a == cfg__parse_tokens(ns, e, L, g)
              IN [nodes |-> a.nodes, err |-> a.err, ret |-> LoadResult(a)]
         ELSE [nodes |-> ns, err |-> e, ret |-> "undefined"]

\* The inputs of a whole load: x = literal; for the literals made of up to
\* MaxNum number characters, the words true and false and an opening quote
\* followed by up to MaxBody string characters, and l = (e, ...); for up to
\* MaxElems elements.
NumberChars == {"-", "0", "3", "."}

StringChars == {"3", "\"", "\\", "n", "t"}

Literals ==
    UNION {[1..n -> NumberChars] : n \in 1..MaxNum}
    \cup {<<"\"">> \o body : body \in UNION {[1..n -> StringChars] : n \in 0..MaxBody}}
    \cup {<<"t", "r", "u", "e">>, <<"f", "a", "l", "s", "e">>}

Elements ==
    {<<"3">>, <<"0", ".", "3">>, <<"t", "r", "u", "e">>, <<"\"", "n", "\"">>,
     <<"[", "]">>}

RECURSIVE Join(_)
Join(es) ==
    IF Len(es) = 1 THEN es[1] ELSE es[1] \o <<",", " ">> \o Join(Tail(es))

ScalarBuffer(lit) == <<"x", " ", "=", " ">> \o lit \o <<";">>

ListBuffer(es) == <<"l", " ", "=", " ", "(">> \o Join(es) \o <<")", ";">>

LoadBuffers ==
    {ScalarBuffer(lit) : lit \in Literals}
    \cup {ListBuffer(es) : es \in UNION {[1..n -> Elements] : n \in 1..MaxElems}}

InitLoad ==
    /\ ConfigInit
    /\ buf \in LoadBuffers
    /\ lx = NoTokenizer
    /\ entry = "none"
    /\ StaticInit

\* cfg_load_buffer(cfg, buf) up to the return of cfg__buffer_tokenize
cfg_load_buffer_tokenize ==
    /\ entry = "none"
    /\ lx' = cfg__buffer_tokenize(buf)
    /\ entry' = "buffer"
    /\ pc' = "tokenized"
    /\ loads' = loads + 1
    /\ UNCHANGED <<buf, released, path, nodes, err, ret, lexer, p, budget, fileVars, getVars>>

\* cfg_load_stream(cfg, stream), on a stream that holds the characters of
\* buf, up to the return of cfg__stream_tokenize
cfg_load_stream_tokenize ==
    /\ entry = "none"
    /\ lx' = cfg__stream_tokenize(buf)
    /\ entry' = "stream"
    /\ pc' = "tokenized"
    /\ loads' = loads + 1
    /\ UNCHANGED <<buf, released, path, nodes, err, ret, lexer, p, budget, fileVars, getVars>>

\* The blocks a tokenizer run holds when it returns: those of
\* cfg__lexer_create and the text of every word, number and string token.
\* The texts of the other tokens are string literals.
OwnedTexts(L) ==
    {i \in 1..Len(L.tokens) :
        L.tokens[i].type \in {CFG_TOKEN_IDENTIFIER, CFG_TOKEN_INT, CFG_TOKEN_DOUBLE,
                              CFG_TOKEN_BOOL, CFG_TOKEN_STRING}}

LexerBlocks(L) ==
    {<<"lexer", 0>>, <<"tokens", 0>>, <<"stack", 0>>}
    \cup {<<"text", i>> : i \in OwnedTexts(L)}

\* cfg__lexer_free: the stack, the text of every token of a kind after EOF
\* that has one, the token array and the lexer, once each.
cfg__lexer_free(L) ==
    [b \in LexerBlocks(L) |->
        IF b[1] = "text"
        THEN IF L.tokens[b[2]].value # NULL THEN 1 ELSE 0
        ELSE 1]

\* The releases of a whole load by the time it returns.  A tokenizer that
\* stopped at an unknown token has returned NULL and the load returns at
\* its test of the lexer; of one that read beyond its buffer nothing is known.
Released(L) ==
    IF L.status = "done" THEN {cfg__lexer_free(L)}
    ELSE IF L.status = "unknown token" THEN {[b \in LexerBlocks(L) |-> 0]}
    ELSE [LexerBlocks(L) -> {0, 1}]

\* The rest of cfg_load_buffer and of cfg_load_stream: the test of the lexer,
\* cfg__parse_tokens, cfg__lexer_free and the return.
cfg_load_parse ==
    /\ pc = "tokenized"
    /\ \E g \in Garbage :
          \E r \in {LoadTokens(nodes, err, lx, g)} :
             /\ nodes' = r.nodes
             /\ err' = r.err
             /\ ret' = r.ret
    /\ released' \in Released(lx)
    /\ pc' = "idle"
    /\ UNCHANGED <<buf, lx, entry, path, loads, lexer, p, budget, fileVars, getVars>>

NextLoad == cfg_load_buffer_tokenize \/ cfg_load_stream_tokenize \/ cfg_load_parse

\* A load call has returned.
Loaded == entry # "none" /\ pc = "idle"

SpecLoad == InitLoad /\ [][NextLoad]_vars

\* ------------------------------------- the accessors on a loaded document
\* The documents the accessors are called on: a = v; and a = v; b = w; for
\* the values below, loaded through either entry point.
GetValues ==
    {<<"3">>, <<"0", ".", "3">>, <<"t", "r", "u", "e">>, <<"\"", "n", "\"">>,
     <<"[", "3", ",", " ", "3", "]">>,
     <<"(", "t", "r", "u", "e", ",", " ", "\"", "n", "\"", ")">>,
     <<"{", "b", " ", "=", " ", "0", ";", "}">>,
     <<"[", "]">>}

Decl(n, v) == <<n, " ", "=", " ">> \o v \o <<";">>

\* The values of a second declaration: two scalars and an aggregate that
\* has no element.
SecondValues == {<<"3">>, <<"\"", "n", "\"">>, <<"[", "]">>}

GetBuffers ==
    {Decl("a", v) : v \in GetValues}
    \cup {Decl("a", v) \o <<" ">> \o Decl("b", w) : v \in GetValues, w \in SecondValues}

InitGet ==
    /\ ConfigInit
    /\ buf \in GetBuffers
    /\ lx = NoTokenizer
    /\ entry = "none"
    /\ StaticInit

\* The contexts a caller can hold: cfg_global_context and what the getters
\* of arrays, lists and structs return.
Contexts(ns) == {cfg_global_context} \cup {n \in 2..Len(ns) : IsAggregate(ns[n].type)}

SafeGetters ==
    {"cfg_get_int_safe", "cfg_get_double_safe", "cfg_get_bool_safe",
     "cfg_get_string_safe", "cfg_get_array_safe", "cfg_get_list_safe",
     "cfg_get_struct_safe"}

Getters ==
    {"cfg_get_int", "cfg_get_double", "cfg_get_bool", "cfg_get_string",
     "cfg_get_array", "cfg_get_list", "cfg_get_struct", "cfg_get_type"}

ElemGetters ==
    {"cfg_get_int_elem", "cfg_get_double_elem", "cfg_get_bool_elem",
     "cfg_get_string_elem", "cfg_get_array_elem", "cfg_get_list_elem",
     "cfg_get_struct_elem", "cfg_get_type_elem", "cfg_get_name",
     "cfg_get_context_len"}

\* What the caller's variable holds when its address is given to a safe getter.
Before(fn) ==
    CASE fn = "cfg_get_int_safe" -> {-1}
      [] fn = "cfg_get_double_safe" -> {Double(-1, 1)}
      [] fn = "cfg_get_bool_safe" -> BOOLEAN
      [] fn = "cfg_get_string_safe" -> {"?"}
      [] OTHER -> {0}

SafeCall(fn, d, ctx, name, res) ==
    CASE fn = "cfg_get_int_safe" -> cfg_get_int_safe(d, ctx, name, res)
      [] fn = "cfg_get_double_safe" -> cfg_get_double_safe(d, ctx, name, res)
      [] fn = "cfg_get_bool_safe" -> cfg_get_bool_safe(d, ctx, name, res)
      [] fn = "cfg_get_string_safe" -> cfg_get_string_safe(d, ctx, name, res)
      [] fn = "cfg_get_array_safe" -> cfg_get_array_safe(d, ctx, name, res)
      [] fn = "cfg_get_list_safe" -> cfg_get_list_safe(d, ctx, name, res)
      [] fn = "cfg_get_struct_safe" -> cfg_get_struct_safe(d, ctx, name, res)

Call(fn, ns, ctx, name) ==
    CASE fn = "cfg_get_int" -> cfg_get_int(ns, ctx, name)
      [] fn = "cfg_get_double" -> cfg_get_double(ns, ctx, name)
      [] fn = "cfg_get_bool" -> cfg_get_bool(ns, ctx, name)
      [] fn = "cfg_get_string" -> cfg_get_string(ns, ctx, name)
      [] fn = "cfg_get_array" -> cfg_get_array(ns, ctx, name)
      [] fn = "cfg_get_list" -> cfg_get_list(ns, ctx, name)
      [] fn = "cfg_get_struct" -> cfg_get_struct(ns, ctx, name)
      [] fn = "cfg_get_type" -> cfg_get_type(ns, ctx, name)

ElemCall(fn, ns, ctx, idx) ==
    CASE fn = "cfg_get_int_elem" -> cfg_get_int_elem(ns, ctx, idx)
      [] fn = "cfg_get_double_elem" -> cfg_get_double_elem(ns, ctx, idx)
      [] fn = "cfg_get_bool_elem" -> cfg_get_bool_elem(ns, ctx, idx)
      [] fn = "cfg_get_string_elem" -> cfg_get_string_elem(ns, ctx, idx)
      [] fn = "cfg_get_array_elem" -> cfg_get_array_elem(ns, ctx, idx)
      [] fn = "cfg_get_list_elem" -> cfg_get_list_elem(ns, ctx, idx)
      [] fn = "cfg_get_struct_elem" -> cfg_get_struct_elem(ns, ctx, idx)
      [] fn = "cfg_get_type_elem" -> cfg_get_type_elem(ns, ctx, idx)
      [] fn = "cfg_get_name" -> cfg_get_name(ns, ctx, idx)
      [] fn = "cfg_get_context_len" -> cfg_get_context_len(ns, ctx)

\* The scan of a lookup by name compares the name with names only.
Defined(ns, ctx, name) == cfg__context_find_variable(ns, ctx, name) # -2

\* A call of a safe getter.  A call that is undefined ends the process
\* (aborts) or returns.
cfg_get_safe ==
    /\ Loaded
    /\ got.n < MaxGets
    /\ \E fn \in SafeGetters, ctx \in Contexts(nodes), name \in Names, aborts \in BOOLEAN :
          \E res \in Before(fn) :
             \E o \in {SafeCall(fn, Doc(nodes, err, ctxerr), ctx, name, res)} :
                /\ aborts => o.rc = "undefined"
                /\ nodes' = o.doc.nodes
                /\ err' = o.doc.err
                /\ ctxerr' = o.doc.ctxerr
                /\ got' = [n |-> got.n + 1, fn |-> fn, ctx |-> ctx, name |-> name,
                           idx |-> 0, before |-> res, rc |-> o.rc, res |-> o.res]
                /\ pc' = IF aborts THEN "fault" ELSE "idle"
    /\ UNCHANGED <<lexer, p, ret, loads, budget, tokVars, fileVars>>

\* A call of a getter by name that returns the value, or of cfg_get_type.
cfg_get ==
    /\ Loaded
    /\ got.n < MaxGets
    /\ \E fn \in Getters, ctx \in Contexts(nodes), name \in Names, aborts \in BOOLEAN :
          /\ aborts => ~Defined(nodes, ctx, name)
          /\ got' = [n |-> got.n + 1, fn |-> fn, ctx |-> ctx, name |-> name,
                     idx |-> 0, before |-> NULL,
                     rc |-> IF Defined(nodes, ctx, name) THEN "returned" ELSE "undefined",
                     res |-> Call(fn, nodes, ctx, name)]
          /\ pc' = IF aborts THEN "fault" ELSE "idle"
    /\ UNCHANGED <<nodes, err, ctxerr, lexer, p, ret, loads, budget, tokVars, fileVars>>

\* A call of a getter by index, of cfg_get_name or of cfg_get_context_len.
cfg_get_elem ==
    /\ Loaded
    /\ got.n < MaxGets
    /\ \E fn \in ElemGetters, ctx \in Contexts(nodes), idx \in 0..MaxIdx :
          got' = [n |-> got.n + 1, fn |-> fn, ctx |-> ctx, name |-> NULL,
                  idx |-> idx, before |-> NULL, rc |-> "returned",
                  res |-> ElemCall(fn, nodes, ctx, idx)]
    /\ UNCHANGED <<nodes, err, ctxerr, lexer, p, pc, ret, loads, budget, tokVars, fileVars>>

\* What a read of an err.type that was never written can yield: the field is
\* part of a block that malloc returned and nothing has set it.
IndeterminateErr ==
    {CFG_ERROR_NONE, CFG_ERROR_VARIABLE_NOT_FOUND, "indeterminate"}

\* The outcomes of return ctx->err.type
ContextErrType(ce, ctx) ==
    IF \E c \in ce : c.ctx = ctx
    THEN {c.type : c \in {e \in ce : e.ctx = ctx}}
    ELSE IndeterminateErr

\* A call of cfg_context_err_type on a context of the loaded document.
cfg_context_err_type ==
    /\ Loaded
    /\ got.n < MaxGets
    /\ \E ctx \in Contexts(nodes) :
          \E t \in ContextErrType(ctxerr, ctx) :
             got' = [n |-> got.n + 1, fn |-> "cfg_context_err_type", ctx |-> ctx,
                     name |-> NULL, idx |-> 0, before |-> NULL, rc |-> "returned",
                     res |-> t]
    /\ UNCHANGED <<nodes, err, ctxerr, lexer, p, pc, ret, loads, budget, tokVars, fileVars>>

NextGet ==
    \/ cfg_load_buffer_tokenize
    \/ cfg_load_stream_tokenize
    \/ cfg_load_parse
    \/ cfg_get_safe
    \/ cfg_get
    \/ cfg_get_elem
    \/ cfg_context_err_type

SpecGet == InitGet /\ [][NextGet]_vars

\* --------------------------------------- the singleton document on its own
InitFile ==
    /\ ConfigInit
    /\ buf = <<>>
    /\ lx = NoTokenizer
    /\ entry = "none"
    /\ StaticInit

\* What a call does once it has released a block a second time or read a
\* released block is undefined: the process is ended by the allocator
\* (aborts), or it goes on.
cfg_load_file ==
    /\ call.running
    /\ call.n < MaxCalls
    /\ \E opens \in BOOLEAN, outcome \in ParseOutcomes, len \in 0..1, aborts \in BOOLEAN :
        LET freed == IF cfg.vars # 0 THEN cfg__config_free(heap, cfg) ELSE heap
            created == cfg__config_create(freed, cfg)
            opened == cfg__file_open(created, opens)
            parsed == cfg__file_parse(opened, outcome, len)
            done == IF opened.rc # 0 THEN opened ELSE parsed
        IN IF aborts
           THEN /\ Faults(freed) # Faults(heap)
                /\ heap' = freed
                /\ cfg' = cfg
                /\ call' = [n |-> call.n + 1, last |-> "cfg_load_file",
                            ret |-> call.ret, running |-> FALSE]
           ELSE /\ heap' = done.heap
                /\ cfg' = done.cfg
                /\ call' = [n |-> call.n + 1, last |-> "cfg_load_file",
                            ret |-> done.rc, running |-> TRUE]
    /\ UNCHANGED <<err, docVars, tokVars, getVars>>

cfg_unload ==
    /\ call.running
    /\ call.n < MaxCalls
    /\ \E aborts \in BOOLEAN :
        LET freed == cfg__config_free(heap, cfg)
        IN /\ aborts => Faults(freed) # Faults(heap)
           /\ heap' = freed
           /\ cfg' = cfg
           /\ call' = [n |-> call.n + 1, last |-> "cfg_unload",
                       ret |-> call.ret, running |-> ~aborts]
    /\ UNCHANGED <<err, docVars, tokVars, getVars>>

NextFile == cfg_load_file \/ cfg_unload

SpecFile == InitFile /\ [][NextFile]_vars

\* ------------------------------------------- a load from the path of a file
\* cfg_load_file of the version with contexts.  The file a path names holds
\* the characters of buf followed by blanks spaces, or there is no such file;
\* opened and closed count the fopen and fclose calls on it.
FILE_MAX_SIZE == 10 * 1024 * 1024

\* The texts of the files: the documents of the accessors, one with a number
\* of two dots and one whose declaration has no value.  Each ends outside a
\* string and a comment, where the tokenizer skips the blanks that follow.
PathTexts ==
    GetBuffers \cup {Decl("a", <<"3", ".", ".">>), <<"a", " ", "=", ";">>}

\* No file, a file of the text alone, one that is FILE_MAX_SIZE characters
\* long and one that is one character longer.
Paths(b) ==
    {NoPath}
    \cup {[exists |-> TRUE, blanks |-> n, opened |-> 0, closed |-> 0] :
             n \in {0, FILE_MAX_SIZE - Len(b), FILE_MAX_SIZE + 1 - Len(b)}}

fopen(f) == [f EXCEPT !.opened = @ + 1]

fclose(f) == [f EXCEPT !.closed = @ + 1]

\* What ftell returns after fseek(stream, 0, SEEK_END).
FileSize(f, b) == Len(b) + f.blanks

\* The branch of a failed fopen: stream is NULL.
OpenFailed(ns, e, f) ==
    [nodes |-> ns,
     err |-> [e EXCEPT !.type = CFG_ERROR_OPEN_FILE, !.msg = "Failed to open file"],
     ret |-> CFG_ERROR_OPEN_FILE, path |-> f, lx |-> NoTokenizer]

\* A branch of size > FILE_MAX_SIZE that returns with the stream open.
FileTooLargeLeftOpen(ns, e, f) ==
    [nodes |-> ns,
     err |-> [e EXCEPT !.type = CFG_ERROR_FILE_TOO_LARGE,
                       !.msg = "File seems to be really large"],
     ret |-> CFG_ERROR_FILE_TOO_LARGE, path |-> f, lx |-> NoTokenizer]

\* The branch of size > FILE_MAX_SIZE: fclose, the error, the return.
FileTooLarge(ns, e, f) ==
    [nodes |-> ns,
     err |-> [e EXCEPT !.type = CFG_ERROR_FILE_TOO_LARGE,
                       !.msg = "File seems to be really large"],
     ret |-> CFG_ERROR_FILE_TOO_LARGE, path |-> fclose(f), lx |-> NoTokenizer]

\* The body of cfg_load_file: lx is the lexer of the cfg_load_stream call,
\* NoTokenizer when the call is not made.
LoadFile(ns, e, f, b, g) ==
    IF ~f.exists THEN OpenFailed(ns, e, f)
    ELSE IF FileSize(fopen(f), b) > FILE_MAX_SIZE THEN FileTooLarge(ns, e, fopen(f))
    ELSE LET L == cfg__stream_tokenize(b)
             r == LoadTokens(ns, e, L, g)
         IN [nodes |-> r.nodes, err |-> r.err, ret |-> r.ret,
             path |-> fclose(fopen(f)), lx |-> L]

InitPath ==
    /\ ConfigInit
    /\ buf \in PathTexts
    /\ lx = NoTokenizer
    /\ entry = "none"
    /\ cfg = StaticConfig
    /\ heap = <<>>
    /\ call = NoCall
    /\ path \in Paths(buf)

\* cfg_load_file(cfg, path)
cfg_load_file_path ==
    /\ entry = "none"
    /\ \E g \in Garbage :
          \E r \in {LoadFile(nodes, err, path, buf, g)} :
             /\ nodes' = r.nodes
             /\ err' = r.err
             /\ ret' = r.ret
             /\ path' = r.path
             /\ lx' = r.lx
             /\ released' \in IF r.lx.status = "none" THEN {released} ELSE Released(r.lx)
    /\ entry' = "file"
    /\ loads' = loads + 1
    /\ UNCHANGED <<buf, pc, lexer, p, budget, fileVars, getVars>>

NextPath == cfg_load_file_path

SpecPath == InitPath /\ [][NextPath]_vars



\* ================================================================ claims
Children(ns, n) == {ns[n].vars[i] : i \in 1..Len(ns[n].vars)}

\* The names declared at the top level of a token array: the identifiers met
\* while no bracket is open.
RECURSIVE TopNamesFrom(_, _, _)
TopNamesFrom(tokens, i, depth) ==
    IF i > Len(tokens) THEN <<>>
    ELSE LET t == tokens[i].type
         IN IF t \in {CFG_TOKEN_LEFT_BRACKET, CFG_TOKEN_LEFT_PARENTHESIS,
                      CFG_TOKEN_LEFT_CURLY_BRACKET}
            THEN TopNamesFrom(tokens, i + 1, depth + 1)
            ELSE IF t \in {CFG_TOKEN_RIGHT_BRACKET, CFG_TOKEN_RIGHT_PARENTHESIS,
                           CFG_TOKEN_RIGHT_CURLY_BRACKET}
            THEN TopNamesFrom(tokens, i + 1, depth - 1)
            ELSE IF t = CFG_TOKEN_IDENTIFIER /\ depth = 0
            THEN <<tokens[i].value>> \o TopNamesFrom(tokens, i + 1, depth)
            ELSE TopNamesFrom(tokens, i + 1, depth)

TopNames(tokens) == TopNamesFrom(tokens, 1, 0)

ChildNames(ns, n) == [i \in 1..Len(ns[n].vars) |-> ns[ns[n].vars[i]].name]

SeqRange(q) == {q[i] : i \in 1..Len(q)}

\* C1: after a load that returns success every ARRAY node has children of one
\* type tag, whatever the position and kind of the elements.  Stated for the
\* first load on a document, whose tree holds only what that load built.
C1_ArrayChildrenShareType ==
    (pc = "idle" /\ loads = 1 /\ ret = CFG_ERROR_NONE) =>
        \A n \in 1..Len(nodes) :
            nodes[n].type = CFG_TYPE_ARRAY =>
                \A c, d \in Children(nodes, n) : nodes[c].type = nodes[d].type

\* C2: the children of the global context and of every STRUCT node have
\* pairwise-distinct names; a declaration (name = scalar ; or name = opener)
\* whose name is that of a child of the current context makes the load return
\* VARIABLE_REDEFINITION with the variable and the enclosing context's name
\* in the error and leaves the tree as it was; a name taken only in other
\* contexts is accepted and appended to the current context.
NamesDistinct(ns) ==
    \A n \in 1..Len(ns) :
        (n = 1 \/ ns[n].type = CFG_TYPE_STRUCT) =>
            \A i, j \in 1..Len(ns[n].vars) :
                /\ ns[ns[n].vars[i]].name # NULL
                /\ i # j => ns[ns[n].vars[i]].name # ns[ns[n].vars[j]].name

Declares(in) ==
    /\ in.type \in p.expected_token
    /\ p.name # NULL
    /\ in.type \in {CFG_TOKEN_SEMICOLON, CFG_TOKEN_LEFT_BRACKET,
                    CFG_TOKEN_LEFT_PARENTHESIS, CFG_TOKEN_LEFT_CURLY_BRACKET}

C2_NamesDistinct ==
    /\ NamesDistinct(nodes)
    /\ pc = "parse" =>
          \A in \in TokenInputs, g \in GarbageNow :
              Declares(in) =>
                  LET a == Iteration(in, g)
                      taken == p.name \in SeqRange(ChildNames(nodes, p.ctx))
                  IN IF taken
                     THEN /\ a.rc = "return 1"
                          /\ LoadResult(a) = CFG_ERROR_VARIABLE_REDEFINITION
                          /\ a.err.var = p.name
                          /\ a.err.inside = nodes[p.ctx].name
                          /\ a.nodes = nodes
                     ELSE /\ a.err.type # CFG_ERROR_VARIABLE_REDEFINITION
                             \/ a.err = err
                          /\ ChildNames(a.nodes, p.ctx)
                                = Append(ChildNames(nodes, p.ctx), p.name)

\* a load failed on a redefinition inside a named struct
C2_Witness ==
    /\ pc = "idle"
    /\ ret = CFG_ERROR_VARIABLE_REDEFINITION
    /\ err.var \in Names
    /\ err.inside \in Names
    /\ \E n, m \in 2..Len(nodes) :
          n # m /\ nodes[n].name = nodes[m].name /\ nodes[n].name # NULL

\* C3: a token whose kind is not in the expected mask makes the load return
\* UNEXPECTED_TOKEN with that token's line and column; the parser stops at
\* that token and the tree is left as it was.
C3_UnexpectedToken ==
    pc = "parse" =>
        \A in \in TokenInputs, g \in GarbageNow :
            in.type \notin p.expected_token =>
                LET a == Iteration(in, g)
                    tok == a.tokens[lexer.cur_token + 1]
                IN /\ a.rc = "return 1"
                   /\ LoadResult(a) = CFG_ERROR_UNEXPECTED_TOKEN
                   /\ a.err.type = CFG_ERROR_UNEXPECTED_TOKEN
                   /\ a.err.line = tok.line /\ a.err.column = tok.column
                   /\ a.cur_token = lexer.cur_token + 1
                   /\ a.nodes = nodes

\* a load stopped at an unexpected token after it had built part of a tree
C3_Witness ==
    /\ pc = "idle"
    /\ ret = CFG_ERROR_UNEXPECTED_TOKEN
    /\ err.msg = "Unexpected token"
    /\ err.column > 4
    /\ Len(nodes) > 1

\* C4: a load returns success only with the bracket stack empty and the
\* current context the global context.
C4_SuccessMeansClosed ==
    pc = "parse" =>
        \A in \in TokenInputs, g \in GarbageNow :
            LET a == Iteration(in, g)
            IN a.rc = "return 0" => (a.stack = <<>> /\ a.ctx = cfg_global_context)

\* C5: after a load that returns an error the global context looks empty to
\* every lookup.  Stated for the first load on a document.
C5_NoTreeAfterError ==
    (pc = "idle" /\ loads = 1 /\ ret # CFG_ERROR_NONE) =>
        /\ cfg_get_context_len(nodes, cfg_global_context) = 0
        /\ \A n \in Names :
              /\ cfg_get_type(nodes, cfg_global_context, n) = CFG_TYPE_NONE
              /\ cfg_get_int_safe(Doc(nodes, err, ctxerr), cfg_global_context, n, 0).rc
                    = CFG_ERROR_VARIABLE_NOT_FOUND
        /\ cfg_get_type_elem(nodes, cfg_global_context, 0) = CFG_TYPE_NONE
        /\ cfg_get_name(nodes, cfg_global_context, 0) = NULL

\* C6: when a load that follows a successful load on the same document
\* returns success, the global context holds exactly the declarations of that
\* load, and every other name is NOT_FOUND / CFG_TYPE_NONE.
C6_ReloadLeavesNoTrace ==
    (pc = "parse" /\ loads >= 2 /\ ret = CFG_ERROR_NONE) =>
        \A in \in TokenInputs, g \in GarbageNow :
            LET a == Iteration(in, g)
            IN a.rc = "return 0" =>
                  /\ ChildNames(a.nodes, cfg_global_context) = TopNames(a.tokens)
                  /\ \A n \in Names \ SeqRange(TopNames(a.tokens)) :
                        /\ cfg_get_type(a.nodes, cfg_global_context, n) = CFG_TYPE_NONE
                        /\ cfg_get_int_safe(Doc(a.nodes, a.err, ctxerr),
                                             cfg_global_context, n, 0).rc
                              = CFG_ERROR_VARIABLE_NOT_FOUND

\* C8: after a load that returns success cfg_err_type is CFG_ERROR_NONE, and
\* a load fails only on an error of its own: an expected token makes the load
\* return an error only when its iteration recorded that error.
C8_ErrorIsOfLastLoad ==
    /\ (pc = "idle" /\ loads > 0 /\ ret = CFG_ERROR_NONE) =>
          cfg_err_type = CFG_ERROR_NONE
    /\ pc = "parse" =>
          \A in \in TokenInputs, g \in GarbageNow :
              LET a == Iteration(in, g)
              IN (in.type \in p.expected_token /\ a.rc = "return 1") => a.err # err


\* C15: a closer directly after a comma is rejected with UNEXPECTED_TOKEN.
C15_CloserAfterCommaRejected ==
    pc = "parse" =>
        \A in \in TokenInputs, g \in GarbageNow :
            (/\ p.prev_token = CFG_TOKEN_COMMA
             /\ in.type \in {CFG_TOKEN_RIGHT_BRACKET, CFG_TOKEN_RIGHT_PARENTHESIS})
            => LET a == Iteration(in, g)
               IN /\ a.rc = "return 1"
                  /\ LoadResult(a) = CFG_ERROR_UNEXPECTED_TOKEN

\* String tokens of two different texts, to tell the order of a join.
StringTokens ==
    {[type |-> CFG_TOKEN_STRING, value |-> v] : v \in {"x", "y"}}

ValueEnd ==
    {CFG_TOKEN_SEMICOLON, CFG_TOKEN_COMMA, CFG_TOKEN_RIGHT_BRACKET,
     CFG_TOKEN_RIGHT_PARENTHESIS}

\* C16: a string token that directly follows a string token is joined behind
\* the pending text, a string token after anything else starts a new text,
\* and the token that ends the value adds one STRING node holding the whole
\* text and leaves no pending text behind.
C16_AdjacentStringsConcatenate ==
    pc = "parse" =>
        /\ \A in \in StringTokens, g \in GarbageNow :
              in.type \in p.expected_token =>
                 LET a == Iteration(in, g)
                 IN /\ a.rc = "loop"
                    /\ a.type = CFG_TYPE_STRING
                    /\ a.value = IF p.prev_token = CFG_TOKEN_STRING
                                 THEN p.value \o in.value ELSE in.value
                    /\ a.nodes = nodes
                    /\ CFG_TOKEN_STRING \in a.expected_token
        /\ \A in \in TokenInputs, g \in GarbageNow :
              (/\ p.prev_token = CFG_TOKEN_STRING
               /\ in.type \in ValueEnd \cap p.expected_token
               /\ Iteration(in, g).rc # "return 1")
              => LET a == Iteration(in, g)
                     n == a.nodes[Len(a.nodes)]
                 IN /\ Len(a.nodes) = Len(nodes) + 1
                    /\ SubSeq(a.nodes, 1, Len(nodes)) =
                          [nodes EXCEPT ![p.ctx].vars = Append(@, Len(a.nodes))]
                    /\ n.type = CFG_TYPE_STRING
                    /\ n.value = p.value
                    /\ n.vars = <<>>
                    /\ a.value = NULL

\* a load succeeded with a STRING variable made of two literals
C16_Witness ==
    /\ pc = "idle"
    /\ ret = CFG_ERROR_NONE
    /\ \E n \in 2..Len(nodes) :
          /\ nodes[n].type = CFG_TYPE_STRING
          /\ nodes[n].value = "xx"
          /\ nodes[n].name \in Names

Opener == {CFG_TOKEN_LEFT_BRACKET, CFG_TOKEN_LEFT_PARENTHESIS,
           CFG_TOKEN_LEFT_CURLY_BRACKET}

CloserOf(t) ==
    CASE t = CFG_TOKEN_LEFT_BRACKET -> CFG_TOKEN_RIGHT_BRACKET
      [] t = CFG_TOKEN_LEFT_PARENTHESIS -> CFG_TOKEN_RIGHT_PARENTHESIS
      [] t = CFG_TOKEN_LEFT_CURLY_BRACKET -> CFG_TOKEN_RIGHT_CURLY_BRACKET

TypeOf(t) ==
    CASE t = CFG_TOKEN_LEFT_BRACKET -> CFG_TYPE_ARRAY
      [] t = CFG_TOKEN_LEFT_PARENTHESIS -> CFG_TYPE_LIST
      [] t = CFG_TOKEN_LEFT_CURLY_BRACKET -> CFG_TYPE_STRUCT

\* C20: right after an opener, at any depth, its closer is accepted; the
\* node the opener made has the opener's aggregate type and no children, the
\* closer adds nothing and the parser is back in the enclosing context.
C20_EmptyAggregates ==
    (pc = "parse" /\ p.prev_token \in Opener) =>
        \A in \in TokenInputs, g \in GarbageNow :
            in.type = CloserOf(p.prev_token) =>
                LET a == Iteration(in, g)
                IN /\ in.type \in p.expected_token
                   /\ a.rc = "loop"
                   /\ a.nodes = nodes
                   /\ p.ctx = Len(nodes)
                   /\ nodes[p.ctx].type = TypeOf(p.prev_token)
                   /\ nodes[p.ctx].vars = <<>>
                   /\ nodes[p.ctx].value = NULL
                   /\ a.ctx = nodes[p.ctx].prev
                   /\ a.stack = SubSeq(lexer.stack, 1, Len(lexer.stack) - 1)
                   /\ a.expected_token = AfterValue(a.stack)

\* a load succeeded with an empty aggregate inside an aggregate
C20_Witness ==
    /\ pc = "idle"
    /\ ret = CFG_ERROR_NONE
    /\ \E n, m \in 2..Len(nodes) :
          /\ IsAggregate(nodes[n].type)
          /\ nodes[n].vars = <<m>>
          /\ IsAggregate(nodes[m].type)
          /\ nodes[m].vars = <<>>
          /\ nodes[m].name = NULL

\* The text of the last identifier among the tokens, NULL when there is none.
RECURSIVE LastIdentifier(_, _)
LastIdentifier(tokens, i) ==
    IF i = 0 THEN NULL
    ELSE IF tokens[i].type = CFG_TOKEN_IDENTIFIER THEN tokens[i].value
    ELSE LastIdentifier(tokens, i - 1)

Named(ns, n) == n = cfg_global_context \/ ns[n].type = CFG_TYPE_STRUCT

Unnamed(ns, n) == ns[n].type \in {CFG_TYPE_ARRAY, CFG_TYPE_LIST}

\* The children of a context have names or have none, as the context says,
\* now and after the iteration for any next token.
NamesFollowTheContext ==
    /\ \A n \in 1..Len(nodes) :
          \A i \in 0..(cfg_get_context_len(nodes, n) - 1) :
              /\ Named(nodes, n) => cfg_get_name(nodes, n, i) # NULL
              /\ Unnamed(nodes, n) => cfg_get_name(nodes, n, i) = NULL
              /\ Named(nodes, n) \/ Unnamed(nodes, n)
    /\ pc = "parse" =>
          \A in \in TokenInputs, g \in GarbageNow :
              LET a == Iteration(in, g)
                  new == a.nodes[Len(a.nodes)]
              IN Len(a.nodes) > Len(nodes) =>
                    /\ Len(a.nodes) = Len(nodes) + 1
                    /\ Named(nodes, new.prev) =>
                          new.name = LastIdentifier(lexer.tokens, Len(lexer.tokens))
                    /\ Unnamed(nodes, new.prev) => new.name = NULL

\* C25: cfg_get_name returns a name for every child of the global context and
\* of a STRUCT node and NULL for every child of an ARRAY or LIST node; the
\* name of a child of the global context or of a struct is the identifier of
\* its declaration.
C25_NamedAndUnnamedChildren == []NamesFollowTheContext

\* a load succeeded with a struct whose member is a list of one element
C25_Witness ==
    /\ pc = "idle"
    /\ ret = CFG_ERROR_NONE
    /\ \E n, m, e \in 2..Len(nodes) :
          /\ nodes[n].type = CFG_TYPE_STRUCT
          /\ nodes[n].vars = <<m>>
          /\ cfg_get_name(nodes, n, 0) \in Names
          /\ nodes[m].type = CFG_TYPE_LIST
          /\ nodes[m].vars = <<e>>
          /\ cfg_get_name(nodes, m, 0) = NULL

ScalarTokens == {CFG_TOKEN_INT, CFG_TOKEN_DOUBLE, CFG_TOKEN_BOOL, CFG_TOKEN_STRING}

\* The parser is inside an array that has a first element, and the scalar
\* that is pending as its next element is of another type.
MismatchPending ==
    /\ pc = "parse"
    /\ cfg__stack_last_char(lexer.stack) = "["
    /\ p.prev_token \in ScalarTokens
    /\ p.value # NULL
    /\ cfg_get_context_len(nodes, p.ctx) > 0
    /\ p.type # cfg_get_type_elem(nodes, p.ctx, 0)

\* C26: when the scalar pending as the next element of an array is not of the
\* type of the array's first element, the comma or closing bracket that
\* follows it is expected and makes the load fail; the error has the line and
\* column of the token before that comma or bracket, which is the element (its
\* last literal when the element is made of several string literals), and the
\* element is not added.
C26_MismatchIsAtTheElement ==
    MismatchPending =>
        /\ p.expected_token \ {CFG_TOKEN_STRING}
              = {CFG_TOKEN_COMMA, CFG_TOKEN_RIGHT_BRACKET}
        /\ \A in \in TokenInputs, g \in GarbageNow :
              in.type \in {CFG_TOKEN_COMMA, CFG_TOKEN_RIGHT_BRACKET} =>
                  LET a == Iteration(in, g)
                      element == lexer.tokens[lexer.cur_token]
                  IN /\ a.rc = "return 1"
                     /\ LoadResult(a) = CFG_ERROR_UNEXPECTED_TOKEN
                     /\ a.err.msg = "Wrong array member type"
                     /\ element.type = p.prev_token
                     /\ element.value = p.value \/ p.prev_token = CFG_TOKEN_STRING
                     /\ a.err.line = element.line
                     /\ a.err.column = element.column
                     /\ a.nodes = nodes

\* a load failed on a string that follows an integer in an array
C26_Witness ==
    /\ pc = "idle"
    /\ ret = CFG_ERROR_UNEXPECTED_TOKEN
    /\ err.msg = "Wrong array member type"
    /\ \E n, m \in 2..Len(nodes) :
          /\ nodes[n].type = CFG_TYPE_ARRAY
          /\ nodes[n].vars = <<m>>
          /\ nodes[m].type = CFG_TYPE_INT
          /\ err.column = m + 3

\* The last identifier token among the tokens: the name of the declaration
\* the parser is in.
RECURSIVE LastIdentifierToken(_, _)
LastIdentifierToken(tokens, i) ==
    IF tokens[i].type = CFG_TOKEN_IDENTIFIER THEN tokens[i]
    ELSE LastIdentifierToken(tokens, i - 1)

\* C27: a declaration whose name is taken in the current context, whatever
\* its value (a scalar, several string literals, an array, a list or a
\* struct), fails with VARIABLE_REDEFINITION and the line and column of the
\* identifier token of that declaration.
C27_RedefinitionIsAtTheIdentifier ==
    pc = "parse" =>
        \A in \in TokenInputs, g \in GarbageNow :
            (Declares(in) /\ NameTaken(LoadState(in), p.ctx, p.name)) =>
                LET a == Iteration(in, g)
                    id == LastIdentifierToken(lexer.tokens, Len(lexer.tokens))
                IN /\ LoadResult(a) = CFG_ERROR_VARIABLE_REDEFINITION
                   /\ a.err.line = id.line
                   /\ a.err.column = id.column

\* The contexts a declaration can be in.
NamedContexts(ns) == {n \in 1..Len(ns) : Named(ns, n)}

\* What an add of a taken name and an add of a free name do to the tree.
FailedAddKeepsTheTree ==
    pc = "parse" =>
        /\ \A in \in TokenInputs, g \in GarbageNow :
              (Declares(in) /\ NameTaken(LoadState(in), p.ctx, p.name)) =>
                  /\ Iteration(in, g).rc = "return 1"
                  /\ Iteration(in, g).nodes = nodes
        /\ \A ctx \in NamedContexts(nodes), name \in Names, g \in GarbageNow :
              \A type \in {CFG_TYPE_INT, CFG_TYPE_ARRAY} :
                 LET s == LoadState([type |-> CFG_TOKEN_SEMICOLON, value |-> ";"])
                     a == cfg__context_add_variable(
                              s, ctx, type, name,
                              IF type = CFG_TYPE_INT THEN "1" ELSE NULL, g)
                 IN IF NameTaken(s, ctx, name)
                    THEN /\ a.err.type = CFG_ERROR_VARIABLE_REDEFINITION
                         /\ a.nodes = nodes
                         /\ cfg_get_context_len(a.nodes, ctx)
                               = cfg_get_context_len(nodes, ctx)
                    ELSE /\ Len(a.nodes) = Len(nodes) + 1
                         /\ a.err = err

\* C28: a call of cfg__context_add_variable with a name that a child of the
\* context has fails with VARIABLE_REDEFINITION and leaves every node of the
\* tree as it was: the context has the children it had, and no node was added
\* or changed; so does the iteration of the parser that makes such a call.
\* Any other call adds one node.
C28_FailedAddLeavesTheTree == []FailedAddKeepsTheTree

\* a load failed on the redefinition of the one variable of the document
C28_Witness ==
    /\ pc = "idle"
    /\ ret = CFG_ERROR_VARIABLE_REDEFINITION
    /\ err.inside = NULL
    /\ cfg_get_context_len(nodes, cfg_global_context) = 1
    /\ cfg_get_name(nodes, cfg_global_context, 0) = err.var
    /\ Len(nodes) = 2

Closer == {CFG_TOKEN_RIGHT_BRACKET, CFG_TOKEN_RIGHT_PARENTHESIS,
           CFG_TOKEN_RIGHT_CURLY_BRACKET}

ScalarTypeOf(t) ==
    CASE t = CFG_TOKEN_INT -> CFG_TYPE_INT
      [] t = CFG_TOKEN_DOUBLE -> CFG_TYPE_DOUBLE
      [] t = CFG_TOKEN_BOOL -> CFG_TYPE_BOOL
      [] t = CFG_TOKEN_STRING -> CFG_TYPE_STRING

Item(tokens, i, depth, type) ==
    [depth |-> depth, type |-> type,
     name |-> IF i > 2 /\ tokens[i - 1].type = CFG_TOKEN_EQ
              THEN tokens[i - 2].value ELSE NULL]

\* What is written in a token array, in the order it is written: an item for
\* every opener and every scalar (one for string literals in a row), with the
\* number of brackets open around it and the name it is declared with.
RECURSIVE ItemsFrom(_, _, _)
ItemsFrom(tokens, i, depth) ==
    IF i > Len(tokens) THEN <<>>
    ELSE LET t == tokens[i].type
         IN IF t \in Opener
            THEN <<Item(tokens, i, depth, TypeOf(t))>> \o ItemsFrom(tokens, i + 1, depth + 1)
            ELSE IF t \in Closer
            THEN ItemsFrom(tokens, i + 1, depth - 1)
            ELSE IF t \in ScalarTokens
                    /\ ~(t = CFG_TOKEN_STRING /\ i > 1
                         /\ tokens[i - 1].type = CFG_TOKEN_STRING)
            THEN <<Item(tokens, i, depth, ScalarTypeOf(t))>>
                    \o ItemsFrom(tokens, i + 1, depth)
            ELSE ItemsFrom(tokens, i + 1, depth)

\* The nodes below n as cfg_get_context_len, cfg_get_type_elem and
\* cfg_get_name show them: every child, by index, followed by what is below it.
RECURSIVE ShapeFrom(_, _, _, _)
ShapeFrom(ns, n, idx, depth) ==
    IF idx >= cfg_get_context_len(ns, n) THEN <<>>
    ELSE <<[depth |-> depth, type |-> cfg_get_type_elem(ns, n, idx),
            name |-> cfg_get_name(ns, n, idx)]>>
         \o ShapeFrom(ns, ns[n].vars[idx + 1], 0, depth + 1)
         \o ShapeFrom(ns, n, idx + 1, depth)

\* The tokens the loop can return 0 on: tokens_len is the index of EOF.
LastInputs == {in \in TokenInputs : in.type = CFG_TOKEN_EOF}

\* C29: after a load that returns success the children of every context are
\* the declarations or elements written directly inside it, each once and in
\* the order of the source, with their types and names.  Stated for the
\* first load on a document.
C29_ChildrenAreTheItems ==
    (pc = "parse" /\ loads = 1) =>
        \A in \in LastInputs, g \in GarbageNow :
            LET a == Iteration(in, g)
            IN a.rc = "return 0" =>
                  ShapeFrom(a.nodes, cfg_global_context, 0, 0) = ItemsFrom(a.tokens, 1, 0)

\* the first load on a document succeeded on a list whose members are an
\* aggregate, a comma and a scalar
C29_Witness ==
    /\ pc = "idle"
    /\ ret = CFG_ERROR_NONE
    /\ loads = 1
    /\ \E n, m, e \in 2..Len(nodes) :
          /\ nodes[n].type = CFG_TYPE_LIST
          /\ nodes[n].vars = <<m, e>>
          /\ IsAggregate(nodes[m].type)
          /\ ~IsAggregate(nodes[e].type)
          /\ cfg_get_context_len(nodes, n) = 2

\* The number of prev hops from a context to the global context.
RECURSIVE NestingDepth(_, _)
NestingDepth(ns, ctx) ==
    IF ctx = cfg_global_context THEN 0 ELSE 1 + NestingDepth(ns, ns[ctx].prev)

\* The type of the global context is never set and never read: it is the
\* context of the empty stack, whatever its type field holds.
InStep(ns, stack, ctx) ==
    /\ ctx \in 1..Len(ns)
    /\ Len(stack) = NestingDepth(ns, ctx)
    /\ (Len(stack) = 0) <=> (ctx = cfg_global_context)
    /\ ctx # cfg_global_context =>
          /\ (cfg__stack_last_char(stack) = "[") <=> (ns[ctx].type = CFG_TYPE_ARRAY)
          /\ (cfg__stack_last_char(stack) = "(") <=> (ns[ctx].type = CFG_TYPE_LIST)
          /\ (cfg__stack_last_char(stack) = "{") <=> (ns[ctx].type = CFG_TYPE_STRUCT)
          /\ IsAggregate(ns[ctx].type)

\* C30: at every step of the parser (every time the loop is at its head, and
\* when it returns 0) the bracket stack and the current context are in step:
\* the stack is as deep as the current context is nested below the global
\* context, its top is [, ( or { exactly when the current context is an
\* ARRAY, a LIST or a STRUCT, and it is empty exactly when the current
\* context is the global context.
C30_StackAndContextInStep ==
    pc = "parse" =>
        /\ InStep(nodes, lexer.stack, p.ctx)
        /\ \A in \in LastInputs, g \in GarbageNow :
              LET a == Iteration(in, g)
              IN a.rc = "return 0" => InStep(a.nodes, a.stack, a.ctx)

\* the parser is inside an aggregate that is inside another one
C30_Witness ==
    /\ pc = "parse"
    /\ Len(lexer.stack) >= 2
    /\ NestingDepth(nodes, p.ctx) = Len(lexer.stack)
    /\ lexer.stack[Len(lexer.stack)] # lexer.stack[Len(lexer.stack) - 1]
    /\ lexer.tokens[lexer.cur_token].type \in Closer

CloserInputs == {in \in TokenInputs : in.type \in Closer}

\* The character cfg__stack_add_char pushed for the opener of a closer.
OpenCharOf(t) ==
    CASE t = CFG_TOKEN_RIGHT_BRACKET -> "["
      [] t = CFG_TOKEN_RIGHT_PARENTHESIS -> "("
      [] t = CFG_TOKEN_RIGHT_CURLY_BRACKET -> "{"

\* C31: a closing token is in the expected mask only when the top of the
\* bracket stack is its opener: the stack it pops is not empty, the context
\* it leaves is below the global context, and the prev pointer it follows is
\* a node, not NULL.
C31_CloserMatchesTop ==
    pc = "parse" =>
        \A in \in CloserInputs, g \in GarbageNow :
            in.type \in p.expected_token =>
                /\ cfg__stack_last_char(lexer.stack) = OpenCharOf(in.type)
                /\ Len(lexer.stack) > 0
                /\ p.ctx # cfg_global_context
                /\ nodes[p.ctx].prev \in 1..Len(nodes)
                /\ \A a \in {Iteration(in, g)} :
                      a.rc # "return 1" =>
                         /\ a.ctx = nodes[p.ctx].prev
                         /\ a.stack = SubSeq(lexer.stack, 1, Len(lexer.stack) - 1)

\* the parser has closed an aggregate that is inside another one
C31_Witness ==
    /\ pc = "parse"
    /\ p.prev_token \in Closer
    /\ Len(lexer.stack) = 1
    /\ p.ctx # cfg_global_context
    /\ Len(nodes[p.ctx].vars) = 1
    /\ IsAggregate(nodes[nodes[p.ctx].vars[1]].type)

ScalarTypes == {CFG_TYPE_INT, CFG_TYPE_DOUBLE, CFG_TYPE_BOOL, CFG_TYPE_STRING}

\* The nodes that have n among their children, once for every cell it is in.
ParentsOf(ns, n) ==
    UNION {{<<m, i>> : i \in {j \in 1..Len(ns[m].vars) : ns[m].vars[j] = n}} :
              m \in 1..Len(ns)}

\* What the type of a node says of its value and its children.
WellFormed(ns) ==
    \A n \in 2..Len(ns) :
        /\ ns[n].type \in ScalarTypes \cup {CFG_TYPE_ARRAY, CFG_TYPE_LIST, CFG_TYPE_STRUCT}
        /\ ns[n].type \in ScalarTypes => (ns[n].value # NULL /\ ns[n].vars = <<>>)
        /\ IsAggregate(ns[n].type) => ns[n].value = NULL
        /\ Cardinality(ParentsOf(ns, n)) = 1
        /\ \A q \in ParentsOf(ns, n) : q[1] = ns[n].prev

Occurrences(b, c) == Cardinality({i \in 1..Len(b) : b[i] = c})

TokensOf(L, c) ==
    Cardinality({i \in 1..Len(L.tokens) :
                    /\ L.tokens[i].type = PunctuationType(c)
                    /\ L.tokens[i].value = c})

\* The types and texts of the tokens, without their positions.
Lexed(L) == [i \in 1..Len(L.tokens) |-> [type |-> L.tokens[i].type,
                                         value |-> L.tokens[i].value]]

\* C9: when a buffer without comments and strings has been tokenized, every
\* punctuation character of it has yielded exactly one token of its kind,
\* whatever precedes it: an identifier, a number or a boolean included.
C9_OneTokenPerPunctuation ==
    (lx.status = "done" /\ Occurrences(buf, "\"") = 0 /\ Occurrences(buf, "/") = 0) =>
        \A c \in PunctuationChars : TokensOf(lx, c) = Occurrences(buf, c)

\* The index of the star of the first star-slash after the comment opener
\* that starts the buffer, 0 when there is none.
FirstClose(b) ==
    LET closes == {j \in 3..(Len(b) - 1) : b[j] = "*" /\ b[j + 1] = "/"}
    IN IF closes = {} THEN 0 ELSE CHOOSE j \in closes : \A k \in closes : j <= k

\* The buffer with its leading block comment replaced by one space.
CommentAsSpace(b) == <<" ">> \o SubSeq(b, FirstClose(b) + 2, Len(b))

\* C10: a buffer that starts with a block comment, closed by the first
\* star-slash after its opener, yields the tokens of the buffer in which the
\* comment is replaced by one space, whatever the comment holds.
C10_CommentEndsAtFirstClose ==
    (/\ lx.status = "done"
     /\ Len(buf) >= 4 /\ buf[1] = "/" /\ buf[2] = "*"
     /\ FirstClose(buf) # 0
     /\ cfg__buffer_tokenize(CommentAsSpace(buf)).status = "done") =>
        Lexed(lx) = Lexed(cfg__buffer_tokenize(CommentAsSpace(buf)))

\* The index of the first newline of the buffer, 0 when there is none.
FirstNewline(b) ==
    LET nls == {j \in 1..Len(b) : b[j] = "\n"}
    IN IF nls = {} THEN 0 ELSE CHOOSE j \in nls : \A k \in nls : j <= k

\* The buffer without the line comment that starts it: its first newline and
\* what follows.
WithoutLineComment(b) == SubSeq(b, FirstNewline(b), Len(b))

\* C11: a buffer that starts with a line comment yields the tokens, with
\* their lines and columns, of the buffer that starts at the newline that
\* ends the comment, whatever the comment holds.
C11_LineCommentEndsAtNewline ==
    (/\ lx.status = "done"
     /\ Len(buf) >= 2 /\ buf[1] = "/" /\ buf[2] = "/"
     /\ FirstNewline(buf) # 0
     /\ cfg__buffer_tokenize(WithoutLineComment(buf)).status = "done") =>
        lx.tokens = cfg__buffer_tokenize(WithoutLineComment(buf)).tokens

\* The index in the buffer of the character at a line and a column.
RECURSIVE LineStart(_, _, _)
LineStart(b, line, i) ==
    IF line <= 1 \/ i > Len(b) THEN i
    ELSE LineStart(b, IF b[i] = "\n" THEN line - 1 ELSE line, i + 1)

IndexOf(b, line, column) == LineStart(b, line, 1) + column - 1

\* The text of the token is written in the buffer from the recorded
\* position on (for a string literal: its opening quote is there).
TextIsAt(b, tok) ==
    LET from == IndexOf(b, tok.line, tok.column)
    IN /\ from \in 1..Len(b)
       /\ IF tok.type = CFG_TOKEN_STRING THEN b[from] = "\""
          ELSE \E to \in from..(Len(b) + 1) : Text(b, from, to) = tok.value

\* C12: every token but the EOF token is recorded with the line and the
\* column of the first character of its text.
C12_PositionIsTokenStart ==
    lx.status = "done" =>
        \A i \in 1..Len(lx.tokens) :
            lx.tokens[i].type # CFG_TOKEN_EOF => TextIsAt(buf, lx.tokens[i])

\* C13: the tokenizer reads no character after the terminating NUL of the
\* buffer, and the tokens it returns hold one EOF token, the last one.
C13_StopsAtNul ==
    /\ lx.status # "overrun"
    /\ lx.status = "done" =>
          /\ Len(lx.tokens) >= 1
          /\ \A i \in 1..Len(lx.tokens) :
                lx.tokens[i].type = CFG_TOKEN_EOF <=> i = Len(lx.tokens)

\* The kinds and texts of the tokens a tokenizer has produced.
KindsAndTexts(L) ==
    [i \in 1..Len(L.tokens) |-> <<L.tokens[i].type, L.tokens[i].value>>]

\* C32: cfg_load_buffer on a text and cfg_load_stream on a stream of the same
\* characters produce the same token kinds and texts, return the same value
\* and build the same tree.
C32_BufferAndStreamAgree ==
    lx.status # "none" =>
        \A S \in {cfg__stream_tokenize(buf)} :
            /\ KindsAndTexts(S) = KindsAndTexts(lx)
            /\ \A g \in Garbage :
                  /\ LoadTokens(nodes, err, S, g).ret = LoadTokens(nodes, err, lx, g).ret
                  /\ LoadTokens(nodes, err, S, g).nodes = LoadTokens(nodes, err, lx, g).nodes

\* Every evaluation of the loop of cfg__buffer_tokenize from L on finds a
\* character of the buffer or its NUL, and every loop body moves ch_current
\* forward.
RECURSIVE EveryIterationConsumes(_, _)
EveryIterationConsumes(b, L) ==
    IF L.status # "run" THEN TRUE
    ELSE LET M == TokIteration(b, L)
         IN /\ M.status # "overrun"
            /\ M.status = "run" => M.ch_current > L.ch_current
            /\ M.ch_current <= Len(b) + 1
            /\ EveryIterationConsumes(b, M)

\* C36: the tokenizer loop ends on every buffer: each of its iterations
\* consumes at least one character of the input, and it stops at the end of
\* the input or at the first error.
C36_TokenizerConsumesTheInput ==
    lx.status # "none" =>
        /\ EveryIterationConsumes(buf, TokenizerStart)
        /\ lx.status \in {"done", "unknown token"}

\* ------------------------------------------------ claims of a whole load
\* What the text of a literal denotes, read off its characters.
Literal(b) == SubSeq(b, 5, Len(b) - 1)

AllDigits(cs) == Len(cs) >= 1 /\ \A i \in 1..Len(cs) : cs[i] \in Digits

Negative(cs) == cs # <<>> /\ cs[1] = "-"

Unsigned(cs) == IF Negative(cs) THEN Tail(cs) ELSE cs

DotAt(cs) == {k \in 1..Len(cs) : cs[k] = "."}

IsIntLiteral(cs) == AllDigits(Unsigned(cs))

IsDoubleLiteral(cs) ==
    LET u == Unsigned(cs)
    IN \E k \in DotAt(u) :
          AllDigits(SubSeq(u, 1, k - 1)) /\ AllDigits(SubSeq(u, k + 1, Len(u)))

IsBoolLiteral(cs) == cs \in {<<"t", "r", "u", "e">>, <<"f", "a", "l", "s", "e">>}

RECURSIVE NatOf(_)
NatOf(cs) ==
    IF cs = <<>> THEN 0
    ELSE NatOf(SubSeq(cs, 1, Len(cs) - 1)) * 10
         + (CHOOSE d \in 0..9 : DigitChar[d + 1] = cs[Len(cs)])

IntDenoted(cs) ==
    IF Negative(cs) THEN 0 - NatOf(Unsigned(cs)) ELSE NatOf(cs)

DoubleDenoted(cs) ==
    LET u == Unsigned(cs)
        k == CHOOSE i \in DotAt(u) : TRUE
        n == NatOf(SubSeq(u, 1, k - 1) \o SubSeq(u, k + 1, Len(u)))
    IN [num |-> IF Negative(cs) THEN 0 - n ELSE n, den |-> Pow10(Len(u) - k)]

SameDouble(x, y) == x.num * y.den = y.num * x.den

\* The characters between the quotes of a string literal: plain characters
\* and the escapes \n, \t, \" and \\.
RECURSIVE IsStringBody(_)
IsStringBody(cs) ==
    IF cs = <<>> THEN TRUE
    ELSE IF cs[1] = "\\"
         THEN /\ Len(cs) >= 2
              /\ cs[2] \in {"n", "t", "\"", "\\"}
              /\ IsStringBody(SubSeq(cs, 3, Len(cs)))
         ELSE cs[1] # "\"" /\ IsStringBody(Tail(cs))

IsStringLiteral(cs) ==
    /\ Len(cs) >= 2
    /\ cs[1] = "\"" /\ cs[Len(cs)] = "\""
    /\ IsStringBody(SubSeq(cs, 2, Len(cs) - 1))

RECURSIVE StringDenoted(_)
StringDenoted(cs) ==
    IF cs = <<>> THEN ""
    ELSE IF cs[1] = "\\"
         THEN (CASE cs[2] = "n" -> "\n"
                 [] cs[2] = "t" -> "\t"
                 [] cs[2] = "\"" -> "\""
                 [] cs[2] = "\\" -> "\\")
              \o StringDenoted(SubSeq(cs, 3, Len(cs)))
         ELSE cs[1] \o StringDenoted(Tail(cs))

\* C14: loading x = t; for a supported scalar literal t succeeds, and the
\* getter of t's type returns what t denotes.
C14_ScalarRoundTrip ==
    (Loaded /\ buf[1] = "x") =>
        LET t == Literal(buf)
        IN /\ IsIntLiteral(t) =>
                 /\ ret = CFG_ERROR_NONE
                 /\ cfg_get_int(nodes, cfg_global_context, "x") = IntDenoted(t)
           /\ IsDoubleLiteral(t) =>
                 /\ ret = CFG_ERROR_NONE
                 /\ SameDouble(cfg_get_double(nodes, cfg_global_context, "x"),
                               DoubleDenoted(t))
           /\ IsBoolLiteral(t) =>
                 /\ ret = CFG_ERROR_NONE
                 /\ cfg_get_bool(nodes, cfg_global_context, "x") = (t[1] = "t")
           /\ IsStringLiteral(t) =>
                 /\ ret = CFG_ERROR_NONE
                 /\ cfg_get_string(nodes, cfg_global_context, "x") =
                       StringDenoted(SubSeq(t, 2, Len(t) - 1))

\* The elements of the list literal in the buffer.
ElementsOf(b) ==
    CHOOSE es \in UNION {[1..n -> Elements] : n \in 1..MaxElems} : b = ListBuffer(es)

ElementType(e) ==
    IF IsIntLiteral(e) THEN CFG_TYPE_INT
    ELSE IF IsDoubleLiteral(e) THEN CFG_TYPE_DOUBLE
    ELSE IF IsBoolLiteral(e) THEN CFG_TYPE_BOOL
    ELSE IF IsStringLiteral(e) THEN CFG_TYPE_STRING
    ELSE CFG_TYPE_ARRAY

\* C17: a list literal of elements of any types loads; the list has one
\* child per element, in order, cfg_get_type_elem reports the type of the
\* i-th element and the _elem getter of that type returns what it denotes.
C17_ListsAreHeterogeneous ==
    (Loaded /\ buf[1] = "l") =>
        LET es == ElementsOf(buf)
            lst == cfg_get_list(nodes, cfg_global_context, "l")
        IN /\ ret = CFG_ERROR_NONE
           /\ lst # 0
           /\ cfg_get_context_len(nodes, lst) = Len(es)
           /\ \A i \in 1..Len(es) :
                 LET e == es[i]
                 IN /\ cfg_get_type_elem(nodes, lst, i - 1) = ElementType(e)
                    /\ IsIntLiteral(e) =>
                          cfg_get_int_elem(nodes, lst, i - 1) = IntDenoted(e)
                    /\ IsDoubleLiteral(e) =>
                          SameDouble(cfg_get_double_elem(nodes, lst, i - 1),
                                     DoubleDenoted(e))
                    /\ IsBoolLiteral(e) =>
                          cfg_get_bool_elem(nodes, lst, i - 1) = (e[1] = "t")
                    /\ IsStringLiteral(e) =>
                          cfg_get_string_elem(nodes, lst, i - 1) =
                             StringDenoted(SubSeq(e, 2, Len(e) - 1))

\* a list of an INT, a STRING and a BOOL was loaded from a stream
C17_Witness ==
    /\ entry = "stream"
    /\ pc = "idle"
    /\ ret = CFG_ERROR_NONE
    /\ buf[1] = "l"
    /\ LET lst == cfg_get_list(nodes, cfg_global_context, "l")
       IN /\ lst # 0
          /\ cfg_get_type_elem(nodes, lst, 0) = CFG_TYPE_INT
          /\ cfg_get_int_elem(nodes, lst, 0) = 3
          /\ cfg_get_type_elem(nodes, lst, 1) = CFG_TYPE_STRING
          /\ cfg_get_string_elem(nodes, lst, 1) = "n"
          /\ cfg_get_type_elem(nodes, lst, 2) = CFG_TYPE_BOOL

\* A quote that is not escaped closes the string that cs continues.
RECURSIVE HasClosingQuote(_)
HasClosingQuote(cs) ==
    IF cs = <<>> THEN FALSE
    ELSE IF cs[1] = "\"" THEN TRUE
    ELSE IF cs[1] = "\\" THEN HasClosingQuote(SubSeq(cs, 3, Len(cs)))
    ELSE HasClosingQuote(Tail(cs))

\* The value in the buffer opens a string that nothing up to the end of the
\* buffer closes.
Unterminated(b) ==
    /\ b[1] = "x"
    /\ b[5] = "\""
    /\ ~HasClosingQuote(SubSeq(b, 6, Len(b)))

\* C18: a load of a buffer or stream whose string literal is not closed
\* returns an error, the same as the document records, and adds no variable.
C18_UnterminatedStringFails ==
    (Loaded /\ Unterminated(buf)) =>
        /\ ret \in {CFG_ERROR_UNEXPECTED_TOKEN, CFG_ERROR_UNKNOWN_TOKEN}
        /\ err.type = ret
        /\ nodes = <<GlobalNode>>

\* a stream ended inside a string whose characters so far became a token
C18_Witness ==
    /\ entry = "stream"
    /\ pc = "idle"
    /\ Unterminated(buf)
    /\ ret = CFG_ERROR_UNEXPECTED_TOKEN
    /\ \E i \in 1..Len(lx.tokens) :
          lx.tokens[i].type = CFG_TOKEN_STRING /\ lx.tokens[i].value = "3\n;"

IsNumeric(cs) ==
    /\ cs # <<>>
    /\ cs[1] \in Digits
    /\ \A i \in 1..Len(cs) : cs[i] \in Digits \cup {"."}

\* C19: a run of digits and dots that starts with a digit loads as an INT
\* when it holds no dot and as a DOUBLE when it holds one, with the run as
\* the value; with more dots the load returns UNKNOWN_TOKEN, the tokenizer
\* has made no token of the run and no variable is added.
C19_DotsDecideTheNumber ==
    (Loaded /\ buf[1] = "x" /\ IsNumeric(Literal(buf))) =>
        LET t == Literal(buf)
            dots == Cardinality(DotAt(t))
            x == cfg__context_find_variable(nodes, cfg_global_context, "x")
        IN /\ dots <= 1 =>
                 /\ ret = CFG_ERROR_NONE
                 /\ x = 0
                 /\ cfg_get_type(nodes, cfg_global_context, "x") =
                       IF dots = 0 THEN CFG_TYPE_INT ELSE CFG_TYPE_DOUBLE
                 /\ Var(nodes, cfg_global_context, x).value = Text(t, 1, Len(t) + 1)
           /\ dots > 1 =>
                 /\ ret = CFG_ERROR_UNKNOWN_TOKEN
                 /\ err.type = CFG_ERROR_UNKNOWN_TOKEN
                 /\ lx.status = "unknown token"
                 /\ \A i \in 1..Len(lx.tokens) :
                       lx.tokens[i].type \notin {CFG_TOKEN_INT, CFG_TOKEN_DOUBLE}
                 /\ nodes = <<GlobalNode>>

\* a stream with a number of two dots was refused
C19_Witness ==
    /\ entry = "stream"
    /\ pc = "idle"
    /\ buf[1] = "x"
    /\ IsNumeric(Literal(buf))
    /\ Cardinality(DotAt(Literal(buf))) = 2
    /\ ret = CFG_ERROR_UNKNOWN_TOKEN
    /\ Len(lx.tokens) = 2

\* C37: when cfg_load_buffer or cfg_load_stream has returned, on success, on
\* a tokenizer error and on a parser error, the lexer, its token array, its
\* bracket stack and every text a token owns have been released exactly once.
C37_LexerReleasedOnEveryReturn ==
    Loaded =>
        /\ DOMAIN released = LexerBlocks(lx)
        /\ \A b \in LexerBlocks(lx) : released[b] = 1

\* ------------------------------------------------ claims of the accessors
\* The type a getter asks for.
Requested(fn) ==
    CASE fn \in {"cfg_get_int_safe", "cfg_get_int", "cfg_get_int_elem"} -> CFG_TYPE_INT
      [] fn \in {"cfg_get_double_safe", "cfg_get_double", "cfg_get_double_elem"} ->
            CFG_TYPE_DOUBLE
      [] fn \in {"cfg_get_bool_safe", "cfg_get_bool", "cfg_get_bool_elem"} -> CFG_TYPE_BOOL
      [] fn \in {"cfg_get_string_safe", "cfg_get_string", "cfg_get_string_elem"} ->
            CFG_TYPE_STRING
      [] fn \in {"cfg_get_array_safe", "cfg_get_array", "cfg_get_array_elem"} ->
            CFG_TYPE_ARRAY
      [] fn \in {"cfg_get_list_safe", "cfg_get_list", "cfg_get_list_elem"} -> CFG_TYPE_LIST
      [] fn \in {"cfg_get_struct_safe", "cfg_get_struct", "cfg_get_struct_elem"} ->
            CFG_TYPE_STRUCT

\* ctx has a child of that name
HasChild(ns, ctx, name) == \E c \in Children(ns, ctx) : ns[c].name = name

\* ctx has a child of that name and that type
HasTyped(ns, ctx, name, type) ==
    \E c \in Children(ns, ctx) : ns[c].name = name /\ ns[c].type = type

\* C21: a call of a safe getter by name returns; it returns
\* VARIABLE_NOT_FOUND exactly when no child of the context has the name,
\* VARIABLE_WRONG_TYPE exactly when a child has the name and another type,
\* and CFG_ERROR_NONE or VARIABLE_PARSE otherwise; *res is as the caller left
\* it unless CFG_ERROR_NONE is returned.
C21_SafeGetterCodes ==
    got.fn \in SafeGetters =>
        /\ pc # "fault"
        /\ got.rc = CFG_ERROR_VARIABLE_NOT_FOUND <=> ~HasChild(nodes, got.ctx, got.name)
        /\ got.rc = CFG_ERROR_VARIABLE_WRONG_TYPE <=>
              /\ HasChild(nodes, got.ctx, got.name)
              /\ ~HasTyped(nodes, got.ctx, got.name, Requested(got.fn))
        /\ HasTyped(nodes, got.ctx, got.name, Requested(got.fn)) =>
              got.rc \in {CFG_ERROR_NONE, CFG_ERROR_VARIABLE_PARSE}
        /\ got.rc # CFG_ERROR_NONE => got.res = got.before

\* The getters by name that return the value.
ValueGetters == Getters \ {"cfg_get_type"}

\* 0, 0.0, false, NULL
Zero(fn) ==
    CASE Requested(fn) = CFG_TYPE_INT -> 0
      [] Requested(fn) = CFG_TYPE_DOUBLE -> Double(0, 1)
      [] Requested(fn) = CFG_TYPE_BOOL -> FALSE
      [] Requested(fn) = CFG_TYPE_STRING -> NULL
      [] OTHER -> 0

\* C22: a call of a getter by name that returns the value returns, and what
\* it returns is what the safe getter of the same type, called on the same
\* context and name, writes to *res when that one returns CFG_ERROR_NONE, and
\* the zero value when that one returns an error.
C22_ConvenienceIsSafe ==
    got.fn \in ValueGetters =>
        /\ pc # "fault"
        /\ got.rc = "returned"
        /\ LET s == SafeCall(got.fn \o "_safe", Doc(nodes, err, ctxerr),
                             got.ctx, got.name, Zero(got.fn))
           IN /\ s.rc \in {CFG_ERROR_NONE, CFG_ERROR_VARIABLE_NOT_FOUND,
                           CFG_ERROR_VARIABLE_WRONG_TYPE, CFG_ERROR_VARIABLE_PARSE}
              /\ s.rc = CFG_ERROR_NONE => got.res = s.res
              /\ s.rc # CFG_ERROR_NONE => got.res = Zero(got.fn)

\* What a lookup returns for something absent.
Neutral(fn) ==
    IF fn = "cfg_get_name" THEN NULL
    ELSE IF fn \in {"cfg_get_type", "cfg_get_type_elem"} THEN CFG_TYPE_NONE
    ELSE Zero(fn)

\* C23: a call of a getter by index, of cfg_get_type_elem or of cfg_get_name
\* with an index that is not below cfg_get_context_len of the context returns
\* 0, 0.0, false, NULL or CFG_TYPE_NONE, and a call of cfg_get_type with a
\* name that no child of the context has returns CFG_TYPE_NONE.
C23_AbsentIsNeutral ==
    /\ (/\ got.fn \in ElemGetters \ {"cfg_get_context_len"}
        /\ got.idx >= cfg_get_context_len(nodes, got.ctx))
       => (got.rc = "returned" /\ got.res = Neutral(got.fn))
    /\ (got.fn = "cfg_get_type" /\ ~HasChild(nodes, got.ctx, got.name))
       => (pc # "fault" /\ got.rc = "returned" /\ got.res = CFG_TYPE_NONE)

\* C24: no call of an accessor (a safe getter, a getter by name or by index,
\* cfg_get_type, cfg_get_type_elem, cfg_get_name, cfg_get_context_len),
\* whatever it returns, changes a node of the tree (name, type, value, parent
\* and children, in their order) or the error of the document.
C24_AccessorsLeaveTheTree ==
    [][got' # got => (nodes' = nodes /\ err' = err)]_vars

\* a safe getter failed on a struct of a loaded document and recorded its
\* error on that context
C24_Witness ==
    /\ got.fn \in SafeGetters
    /\ got.rc = CFG_ERROR_VARIABLE_WRONG_TYPE
    /\ got.ctx > 1
    /\ nodes[got.ctx].type = CFG_TYPE_STRUCT
    /\ [ctx |-> got.ctx, type |-> CFG_ERROR_VARIABLE_WRONG_TYPE] \in ctxerr
    /\ ret = CFG_ERROR_NONE

\* C33: a lookup by name (cfg_get_type, a getter that returns the value or a
\* safe getter) in an array or list that has an element returns, and reports
\* the name as absent: VARIABLE_NOT_FOUND, CFG_TYPE_NONE or the zero value;
\* the name is not compared with the NULL name of a child.
C33_UnnamedChildrenAreAbsent ==
    (/\ got.fn \in SafeGetters \cup Getters
     /\ nodes[got.ctx].type \in {CFG_TYPE_ARRAY, CFG_TYPE_LIST}
     /\ cfg_get_context_len(nodes, got.ctx) > 0)
    =>  /\ pc # "fault"
        /\ got.rc # "undefined"
        /\ got.fn \in SafeGetters => got.rc = CFG_ERROR_VARIABLE_NOT_FOUND
        /\ got.fn = "cfg_get_type" => got.res = CFG_TYPE_NONE
        /\ got.fn \in ValueGetters => got.res = Zero(got.fn)

\* C34: cfg_context_err_type of a context on which no safe getter has
\* failed is CFG_ERROR_NONE, and after a call of a safe getter on a context
\* it is the value that call returned.
C34_ContextErrIsLastResult ==
    /\ (got.fn = "cfg_context_err_type" /\ ~\E c \in ctxerr : c.ctx = got.ctx)
          => got.res = CFG_ERROR_NONE
    /\ (got.fn \in SafeGetters /\ pc # "fault" /\ got.rc # "undefined")
          => ContextErrType(ctxerr, got.ctx) = {got.rc}

\* ----------------------------------------- claims of a load from a path
\* C38: when cfg_load_file has returned on a file that is larger than
\* FILE_MAX_SIZE, 10 MiB, it has returned CFG_ERROR_FILE_TOO_LARGE, the
\* document records that error and no tokenizer has run; and whenever it has
\* returned after fopen succeeded, whether the file was too large or the
\* stream load failed or succeeded, the stream was opened once and closed once.
C38_TooLargeIsRefusedAndStreamClosed ==
    entry = "file" =>
        /\ (path.exists /\ FileSize(path, buf) > 10 * 1024 * 1024) =>
              /\ ret = CFG_ERROR_FILE_TOO_LARGE
              /\ err.type = CFG_ERROR_FILE_TOO_LARGE
              /\ lx.status = "none"
              /\ nodes = <<GlobalNode>>
        /\ path.exists => (path.opened = 1 /\ path.closed = 1)

C38_Witness ==
    /\ entry = "file"
    /\ path.exists
    /\ FileSize(path, buf) = FILE_MAX_SIZE + 1
    /\ ret = CFG_ERROR_FILE_TOO_LARGE
    /\ path.closed = 1


\* ------------------------------------------ claims of the singleton document
\* C7: whatever cfg_load_file and cfg_unload calls have been made on the
\* singleton document, no tree, message buffer or stream has been released
\* twice or read after its release, and after a cfg_unload each of them has
\* been released exactly once.
C7_ReleasedExactlyOnce ==
    /\ \A i \in 1..Len(heap) : heap[i].released <= 1 /\ ~heap[i].used_after
    /\ (call.last = "cfg_unload" /\ call.running) =>
           \A i \in 1..Len(heap) : heap[i].released = 1

====
